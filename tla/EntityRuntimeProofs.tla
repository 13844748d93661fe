------------------------ MODULE EntityRuntimeProofs ------------------------
(***************************************************************************)
(* Proofs about EntityRuntime and the journal's operators under it.        *)
(***************************************************************************)
EXTENDS EntityRuntime, FiniteSetTheorems, SequenceTheorems, TLAPS

-----------------------------------------------------------------------------
(* The journal: on rows that are a sequence a batch is only accepted at the *)
(* end, and loadEvents returns the suffix.                                  *)

\* A batch that follows a number already reached and is not refused as a
\* duplicate lands exactly at the end of a contiguous journal.
LEMMA PersistAppends ==
    ASSUME NEW S, NEW q \in Seq(S), NEW ev \in S, NEW k \in Nat,
           NEW start \in 0 .. Len(q), ~IsDuplicate(q, start, k)
    PROVE  /\ PersistRows(q, start, k, ev) = q \o [i \in 1 .. k |-> ev]
           /\ PersistRows(q, start, k, ev) \in Seq(S)
           /\ k > 0 => start = Len(q)
<1>1. CASE k = 0
  <2>1. BatchSlots(start, k) = {}
    BY <1>1 DEF BatchSlots
  <2>2. PersistRows(q, start, k, ev) = q
    BY <2>1 DEF PersistRows
  <2>3. q \o [i \in 1 .. k |-> ev] = q
    BY <1>1
  <2> QED BY <1>1, <2>2, <2>3
<1>2. CASE k > 0
  <2>1. start = Len(q)
    <3>1. Len(q) \in Nat /\ DOMAIN q = 1 .. Len(q)
      OBVIOUS
    <3>2. start + 1 \in BatchSlots(start, k)
      BY <1>2, <3>1 DEF BatchSlots
    <3>3. start + 1 \notin 1 .. Len(q)
      BY <3>1, <3>2 DEF IsDuplicate
    <3>4. start \in Nat /\ start <= Len(q)
      BY <3>1
    <3>5. ~(start + 1 <= Len(q))
      BY <3>1, <3>3, <3>4
    <3>6. \A a, b \in Nat : a <= b /\ ~(a + 1 <= b) => a = b
      OBVIOUS
    <3> QED BY <3>1, <3>4, <3>5, <3>6, Zenon
  <2>2. DOMAIN q \cup BatchSlots(start, k) = 1 .. (Len(q) + k)
    BY <2>1 DEF BatchSlots
  <2>3. \A s \in 1 .. (Len(q) + k) :
            PersistRows(q, start, k, ev)[s] = IF s <= Len(q) THEN q[s] ELSE ev
    BY <2>1, <2>2 DEF PersistRows, BatchSlots
  <2>4. PersistRows(q, start, k, ev)
            = [s \in 1 .. (Len(q) + k) |-> IF s <= Len(q) THEN q[s] ELSE ev]
    BY <2>1, <2>2 DEF PersistRows, BatchSlots
  <2>5. q \o [i \in 1 .. k |-> ev]
            = [s \in 1 .. (Len(q) + k) |-> IF s <= Len(q) THEN q[s] ELSE ev]
    OBVIOUS
  <2>6. q \o [i \in 1 .. k |-> ev] \in Seq(S)
    OBVIOUS
  <2> QED BY <2>1, <2>4, <2>5, <2>6
<1>3. k = 0 \/ k > 0
  OBVIOUS
<1> QED BY <1>1, <1>2, <1>3, Zenon

\* On a contiguous journal loadEvents returns the suffix after its argument,
\* and the last number it sees is the journal's length.
LEMMA LoadReturnsSuffix ==
    ASSUME NEW S, NEW q \in Seq(S), NEW from \in 0 .. Len(q)
    PROVE  /\ LoadEvents(q, from) = SubSeq(q, from + 1, Len(q))
           /\ LastSequenceNr(q, from) = Len(q)
<1> DEFINE n == Len(q)
<1>1. RowsAfter(q, from) = (from + 1) .. n
  BY DEF RowsAfter
<1>2. Cardinality(RowsAfter(q, from)) = n - from
  <2>1. CASE from = n
    BY <1>1, <2>1, FS_Interval
  <2>2. CASE from < n
    BY <1>1, <2>2, FS_Interval
  <2> QED BY <2>1, <2>2
<1>3. ASSUME NEW s \in (from + 1) .. n
      PROVE  Cardinality({t \in RowsAfter(q, from) : t <= s}) = s - from
  <2>1. {t \in RowsAfter(q, from) : t <= s} = (from + 1) .. s
    BY <1>1
  <2>2. from + 1 \in Int /\ s \in Int /\ ~(from + 1 > s)
    OBVIOUS
  <2>3. Cardinality((from + 1) .. s) = s - (from + 1) + 1
    BY <2>2, FS_Interval
  <2>4. s - (from + 1) + 1 = s - from
    BY <2>2
  <2> QED BY <2>1, <2>3, <2>4, Zenon
<1>4. ASSUME NEW i \in 1 .. (n - from)
      PROVE  (CHOOSE s \in RowsAfter(q, from) :
                Cardinality({t \in RowsAfter(q, from) : t <= s}) = i) = from + i
  <2>1. from + i \in RowsAfter(q, from)
    BY <1>1
  <2>2. \A s \in RowsAfter(q, from) :
            Cardinality({t \in RowsAfter(q, from) : t <= s}) = i <=> s = from + i
    BY <1>1, <1>3
  <2> QED BY <2>1, <2>2
<1> DEFINE Nth(i) == CHOOSE s \in RowsAfter(q, from) :
                        Cardinality({t \in RowsAfter(q, from) : t <= s}) = i
<1>5. LoadEvents(q, from) = [i \in 1 .. (n - from) |-> q[from + i]]
  <2>1. LoadEvents(q, from) = [i \in 1 .. (n - from) |-> q[Nth(i)]]
    BY <1>2, Zenon DEF LoadEvents
  <2>2. \A i \in 1 .. (n - from) : Nth(i) = from + i
    BY <1>4
  <2> HIDE DEF Nth
  <2> QED BY <2>1, <2>2
<1>6. SubSeq(q, from + 1, n) = [i \in 1 .. (n - from) |-> q[from + i]]
  OBVIOUS
<1>7. LastSequenceNr(q, from) = n
  <2>1. CASE from = n
    BY <1>1, <2>1 DEF LastSequenceNr
  <2>2. CASE from < n
    <3>1. n \in RowsAfter(q, from) /\ \A t \in RowsAfter(q, from) : t <= n
      BY <1>1, <2>2
    <3>2. \A s \in RowsAfter(q, from) :
              (\A t \in RowsAfter(q, from) : t <= s) <=> s = n
      BY <1>1, <3>1
    <3> QED BY <3>1, <3>2 DEF LastSequenceNr
  <2> QED BY <2>1, <2>2
<1> QED BY <1>5, <1>6, <1>7

-----------------------------------------------------------------------------
(* The runtime.                                                             *)

\* Every runner that exists was created for an entity.
Homed == \A r \in Runner : status[r] # "unborn" => home[r] \in Entity

\* The inductive invariant: types alone are not inductive, because the journal
\* stays a sequence only while each runner's number is at most its length.
IInv == TypeOK /\ Homed /\ StateIsReplay /\ SnapshotIsReplay

\* Nothing has been written yet.
LEMMA InitIInv == Init => IInv
<1> SUFFICES ASSUME Init PROVE IInv
  OBVIOUS
<1> USE RuntimeAssumption
<1>1. TypeOK
  BY DEF Init, TypeOK, NoRows, NoSnapshot, Outcome, RunnerStatus
<1>2. Homed /\ StateIsReplay
  BY DEF Init, Homed, StateIsReplay
<1>3. ASSUME NEW e \in Entity
      PROVE  /\ snapshot[e].seq <= Len(rows[e])
             /\ snapshot[e].state = Prefix(rows[e], snapshot[e].seq)
  <2>1. snapshot[e].seq = 0 /\ snapshot[e].state = << >> /\ rows[e] = << >>
    BY DEF Init, NoRows, NoSnapshot
  <2>2. SubSeq(<< >>, 1, 0) = << >>
    OBVIOUS
  <2> QED BY <2>1, <2>2 DEF Prefix
<1> QED BY <1>1, <1>2, <1>3 DEF IInv, SnapshotIsReplay

-----------------------------------------------------------------------------
(* Types of the pieces the actions are made of.                             *)

\* The top of a stack and the rest of it.
LEMMA TopTyped ==
    ASSUME TypeOK, NEW r \in Runner, work[r] # << >>
    PROVE  /\ Top(r) \in Frame
           /\ Tail(work[r]) \in Seq(Frame)
           /\ Top(r).m \in Msg \cup {None}
           /\ Top(r).on \in Msg \cup {None}
           /\ Top(r).phase # "hook" => Top(r) \in CommandFrame /\ Top(r).m \in Msg
<1>1. work[r] \in Seq(Frame)
  BY DEF TypeOK
<1>2. Top(r) \in Frame /\ Tail(work[r]) \in Seq(Frame)
  BY <1>1 DEF Top
<1> QED BY <1>2 DEF Frame, CommandFrame, RecoveryFrame

\* A frame put on the rest of a stack.
LEMMA PushTyped ==
    ASSUME TypeOK, NEW r \in Runner, work[r] # << >>, NEW f \in Frame
    PROVE  <<f>> \o Tail(work[r]) \in Seq(Frame)
BY TopTyped

\* The rest of a chain.
LEMMA ConsumedTyped ==
    ASSUME TypeOK, NEW r \in Runner, AtChainedEffect(r)
    PROVE  Consumed(r) \in Seq(Frame)
<1>1. work[r] # << >> /\ Top(r).phase = "effect" /\ Top(r).left > 1
  BY DEF AtChainedEffect, AtEffect
<1>2. Top(r) \in CommandFrame
  BY <1>1, TopTyped
<1>3. [Top(r) EXCEPT !.left = @ - 1] \in CommandFrame
  BY <1>1, <1>2 DEF CommandFrame
<1> QED BY <1>1, <1>3, PushTyped DEF Consumed, Frame

\* The bottom frame's command.
LEMMA BottomTyped ==
    ASSUME TypeOK, NEW r \in Runner, work[r] # << >>
    PROVE  Bottom(r).m \in Msg \cup {None}
<1>1. work[r] \in Seq(Frame) /\ Len(work[r]) \in 1 .. Len(work[r])
  BY DEF TypeOK
<1>2. Bottom(r) \in Frame
  BY <1>1 DEF Bottom
<1> QED BY <1>2 DEF Frame, CommandFrame, RecoveryFrame

\* A message offered to a mailbox.
LEMMA OfferTyped ==
    ASSUME TypeOK, NEW r \in Runner, NEW x \in Msg \cup {StopMsg}
    PROVE  [mailbox EXCEPT ![r] = Append(@, x)]
               \in [Runner -> Seq(Msg \cup {StopMsg})]
<1>1. mailbox \in [Runner -> Seq(Msg \cup {StopMsg})]
  BY DEF TypeOK
<1>2. mailbox[r] \in Seq(Msg \cup {StopMsg})
  BY <1>1
<1>3. Append(mailbox[r], x) \in Seq(Msg \cup {StopMsg})
  BY <1>2
<1> QED BY <1>1, <1>3

\* Settling an ask.
LEMMA SettleTyped ==
    ASSUME TypeOK, NEW m \in Msg, NEW out \in Outcome, NEW n \in Nat
    PROVE  /\ Settle(m, out) \in [Msg -> Outcome]
           /\ SettleAt(m, n) \in [Msg -> Nat]
BY DEF Settle, SettleAt, TypeOK

\* A crash.
LEMMA CrashTyped ==
    ASSUME TypeOK, NEW r \in Runner, work[r] # << >>, Crash(r)
    PROVE  /\ status' \in [Runner -> RunnerStatus]
           /\ work' \in [Runner -> Seq(Frame)]
           /\ answer' \in [Msg -> Outcome]
<1>1. status' \in [Runner -> RunnerStatus]
  BY DEF Crash, TypeOK, RunnerStatus
<1>2. work' \in [Runner -> Seq(Frame)]
  BY DEF Crash, TypeOK
<1>3. answer' \in [Msg -> Outcome]
  <2>1. CASE Bottom(r).m = None
    BY <2>1 DEF Crash, TypeOK
  <2>2. CASE Bottom(r).m # None
    <3>1. Bottom(r).m \in Msg /\ "failed" \in Outcome /\ 0 \in Nat
      BY <2>2, BottomTyped DEF Outcome
    <3>2. Settle(Bottom(r).m, "failed") \in [Msg -> Outcome]
      BY <3>1, SettleTyped, SMTT(40)
    <3> QED BY <2>2, <3>2 DEF Crash
  <2> QED BY <2>1, <2>2
<1> QED BY <1>1, <1>2, <1>3
-----------------------------------------------------------------------------
(* Prefixes of a journal.                                                   *)

\* A journal is its prefix up to n and the events after n.
LEMMA PrefixAndRest ==
    ASSUME NEW S, NEW q \in Seq(S), NEW n \in 0 .. Len(q)
    PROVE  /\ Prefix(q, n) \o SubSeq(q, n + 1, Len(q)) = q
           /\ Prefix(q, Len(q)) = q
           /\ Prefix(q, n) \in Seq(S)
<1>1. Len(q) \in Nat /\ 1 \in 1 .. (Len(q) + 1) /\ n \in (1 - 1) .. Len(q)
      /\ Len(q) \in n .. Len(q)
  OBVIOUS
<1>2. SubSeq(q, 1, n) \o SubSeq(q, n + 1, Len(q)) = SubSeq(q, 1, Len(q))
  BY <1>1, ConcatAdjacentSubSeq
<1>3. SubSeq(q, 1, Len(q)) = q
  BY SubSeqFull
<1>4. SubSeq(q, 1, n) \in Seq(S)
  OBVIOUS
<1> QED BY <1>2, <1>3, <1>4, ZenonT(40) DEF Prefix

\* Appending events changes no prefix of the journal before them.
LEMMA PrefixOfAppend ==
    ASSUME NEW S, NEW q \in Seq(S), NEW t \in Seq(S), NEW n \in 0 .. Len(q)
    PROVE  Prefix(q \o t, n) = Prefix(q, n) /\ n <= Len(q \o t)
<1>1. Len(q \o t) = Len(q) + Len(t) /\ Len(q) \in Nat /\ Len(t) \in Nat
  OBVIOUS
<1>2. CASE n = 0
  <2>1. SubSeq(q \o t, 1, 0) = << >> /\ SubSeq(q, 1, 0) = << >>
    BY SubSeqEmpty
  <2> QED BY <1>1, <1>2, <2>1 DEF Prefix
<1>3. CASE n > 0
  <2>1. 1 \in 1 .. Len(q) /\ n \in 1 .. Len(q)
    BY <1>1, <1>3
  <2>2. SubSeq(q \o t, 1, n) = SubSeq(q, 1, n)
    BY <2>1, SubSeqOfConcat1
  <2> QED BY <1>1, <2>2 DEF Prefix
<1> QED BY <1>2, <1>3

\* Replay from a snapshot that is a prefix gives the whole journal.
LEMMA RecoveredIsJournal ==
    ASSUME IInv, NEW e \in Entity, NEW base \in {snapshot[e], NoSnapshot}
    PROVE  /\ RecoveredState(e, base) = rows[e]
           /\ RecoveredSeq(e, base) = Len(rows[e])
<1>1. rows[e] \in Seq(Msg) /\ Len(rows[e]) \in Nat
  BY DEF IInv, TypeOK
<1>2. base.seq \in 0 .. Len(rows[e]) /\ base.state = Prefix(rows[e], base.seq)
  <2>1. CASE base = snapshot[e]
    BY <1>1, <2>1 DEF IInv, TypeOK, SnapshotIsReplay
  <2>2. CASE base = NoSnapshot
    <3>1. SubSeq(rows[e], 1, 0) = << >>
      BY SubSeqEmpty
    <3> QED BY <1>1, <2>2, <3>1 DEF NoSnapshot, Prefix
  <2> QED BY <2>1, <2>2
<1>3. LoadEvents(rows[e], base.seq) = SubSeq(rows[e], base.seq + 1, Len(rows[e]))
  BY <1>1, <1>2, LoadReturnsSuffix
<1>4. LastSequenceNr(rows[e], base.seq) = Len(rows[e])
  BY <1>1, <1>2, LoadReturnsSuffix
<1>5. base.state \o LoadEvents(rows[e], base.seq) = rows[e]
  BY <1>1, <1>2, <1>3, PrefixAndRest
<1> QED BY <1>4, <1>5 DEF RecoveredState, RecoveredSeq

-----------------------------------------------------------------------------
(* Delivery: a message to a runner that exists, or to a new incarnation,    *)
(* which starts with the whole journal.                                     *)

DeliverTyped ==
    /\ entities' \in [Entity -> Runner \cup {None}]
    /\ status' \in [Runner -> RunnerStatus]
    /\ home' \in [Runner -> Entity \cup {None}]
    /\ mailbox' \in [Runner -> Seq(Msg \cup {StopMsg})]
    /\ work' \in [Runner -> Seq(Frame)]
    /\ state' \in [Runner -> Seq(Msg)]
    /\ seqNr' \in [Runner -> Nat]
    /\ stash' \in [Runner -> Seq(Msg)]
    /\ since' \in [Runner -> Nat]

\* A message to an entity keeps types, homes and the replayed state.
LEMMA DeliverKeeps ==
    ASSUME IInv, NEW e \in Entity, NEW x \in Msg,
           NEW w \in [Runner -> Seq(Frame)], Deliver(e, x, w),
           UNCHANGED journalVars
    PROVE  DeliverTyped /\ Homed' /\ StateIsReplay' /\ SnapshotIsReplay'
<1> USE RuntimeAssumption
<1>0. rows' = rows /\ snapshot' = snapshot
  BY DEF journalVars
<1>a. SnapshotIsReplay'
  BY <1>0 DEF IInv, SnapshotIsReplay
<1>1. CASE entities[e] # None /\ status[entities[e]] # "terminated"
  <2>1. /\ mailbox' = [mailbox EXCEPT ![entities[e]] = Append(@, x)]
        /\ work' = w
        /\ UNCHANGED <<entities, status, home, entityVars>>
    BY <1>1 DEF Deliver
  <2>2. entities[e] \in Runner
    BY <1>1 DEF IInv, TypeOK
  <2>3. mailbox' \in [Runner -> Seq(Msg \cup {StopMsg})]
    BY <2>1, <2>2, OfferTyped DEF IInv
  <2>4. DeliverTyped
    BY <2>1, <2>3 DEF DeliverTyped, IInv, TypeOK, entityVars
  <2>5. Homed' /\ StateIsReplay'
    BY <2>1, <1>0 DEF IInv, Homed, StateIsReplay, entityVars
  <2> QED BY <1>a, <2>4, <2>5
<1>2. CASE ~(entities[e] # None /\ status[entities[e]] # "terminated")
  <2>1. PICK r \in Runner : Create(e, r, x, w)
    BY <1>2 DEF Deliver
  <2>2. /\ status[r] = "unborn"
        /\ entities' = [entities EXCEPT ![e] = r]
        /\ home' = [home EXCEPT ![r] = e]
        /\ mailbox' = [mailbox EXCEPT ![r] = <<x>>]
    BY <2>1 DEF Create
  <2>3. /\ entities' \in [Entity -> Runner \cup {None}]
        /\ home' \in [Runner -> Entity \cup {None}]
        /\ mailbox' \in [Runner -> Seq(Msg \cup {StopMsg})]
    <3>1. <<x>> \in Seq(Msg \cup {StopMsg})
      OBVIOUS
    <3> QED BY <2>2, <3>1 DEF IInv, TypeOK
  <2>4. CASE /\ Recover(e, r)
             /\ status' = [status EXCEPT ![r] = "live"]
             /\ work' = [w EXCEPT ![r] = IF HasHook THEN <<HookFrame>> ELSE << >>]
    <3>1. PICK base \in {snapshot[e], NoSnapshot} :
            /\ state' = [state EXCEPT ![r] = RecoveredState(e, base)]
            /\ seqNr' = [seqNr EXCEPT ![r] = RecoveredSeq(e, base)]
            /\ since' = [since EXCEPT ![r] = 0]
            /\ stash' = [stash EXCEPT ![r] = << >>]
      BY <2>4 DEF Recover
    <3>2. /\ state' = [state EXCEPT ![r] = rows[e]]
          /\ seqNr' = [seqNr EXCEPT ![r] = Len(rows[e])]
      BY <3>1, RecoveredIsJournal
    <3>3. rows[e] \in Seq(Msg) /\ Len(rows[e]) \in Nat
      BY DEF IInv, TypeOK
    <3>4. /\ state' \in [Runner -> Seq(Msg)]
          /\ seqNr' \in [Runner -> Nat]
          /\ stash' \in [Runner -> Seq(Msg)]
          /\ since' \in [Runner -> Nat]
          /\ status' \in [Runner -> RunnerStatus]
      BY <2>4, <3>1, <3>2, <3>3, SMTT(40) DEF IInv, TypeOK, RunnerStatus
    <3>5. work' \in [Runner -> Seq(Frame)]
      <4>1. HookFrame \in Frame
        BY DEF HookFrame, Frame, RecoveryFrame
      <4> QED BY <2>4, <4>1
    <3>6. Homed'
      BY <2>2, <2>4 DEF IInv, TypeOK, Homed
    <3>7. StateIsReplay'
      <4> SUFFICES ASSUME NEW q \in Runner, status'[q] = "live"
                   PROVE  /\ seqNr'[q] <= Len(rows'[home'[q]])
                          /\ state'[q] = Prefix(rows'[home'[q]], seqNr'[q])
        BY DEF StateIsReplay
      <4>1. CASE q = r
        <5>1. /\ home'[q] = e /\ seqNr'[q] = Len(rows[e]) /\ state'[q] = rows[e]
              /\ rows' = rows
          BY <1>0, <2>2, <3>2, <4>1 DEF IInv, TypeOK
        <5>2. Prefix(rows[e], Len(rows[e])) = rows[e]
          BY <3>3, PrefixAndRest
        <5>3. Len(rows[e]) <= Len(rows[e])
          BY <3>3
        <5> QED BY <5>1, <5>2, <5>3
      <4>2. CASE q # r
        <5>1. /\ home'[q] = home[q] /\ seqNr'[q] = seqNr[q]
              /\ state'[q] = state[q] /\ status[q] = "live"
          BY <2>2, <2>4, <3>2, <4>2 DEF IInv, TypeOK
        <5> QED BY <1>0, <5>1 DEF IInv, StateIsReplay
      <4> QED BY <4>1, <4>2
    <3> QED BY <1>a, <2>3, <3>4, <3>5, <3>6, <3>7 DEF DeliverTyped
  <2>5. CASE /\ "throw" \in Uses
             /\ status' = [status EXCEPT ![r] = "exiting"]
             /\ work' = w
             /\ UNCHANGED entityVars
    <3>1. DeliverTyped
      BY <2>3, <2>5 DEF IInv, TypeOK, DeliverTyped, RunnerStatus, entityVars
    <3>2. Homed'
      BY <2>2, <2>5 DEF IInv, TypeOK, Homed
    <3>3. StateIsReplay'
      BY <1>0, <2>2, <2>5 DEF IInv, TypeOK, StateIsReplay, entityVars
    <3> QED BY <1>a, <3>1, <3>2, <3>3
  <2> QED BY <2>1, <2>4, <2>5 DEF Create
<1> QED BY <1>1, <1>2
-----------------------------------------------------------------------------
(* The actions.  Most leave journals, snapshots and replayed state alone.   *)

\* No runner comes to life in this step.
NoneRevived ==
    \A r \in Runner : /\ status'[r] = "live" => status[r] = "live"
                      /\ status'[r] # "unborn" => status[r] # "unborn"

\* A step that writes no journal and brings no runner to life keeps the rest.
LEMMA QuietKeeps ==
    ASSUME IInv, UNCHANGED <<home, state, seqNr, rows, snapshot>>, NoneRevived
    PROVE  Homed' /\ StateIsReplay' /\ SnapshotIsReplay'
<1>1. Homed'
  BY DEF IInv, Homed, NoneRevived
<1>2. StateIsReplay'
  BY DEF IInv, StateIsReplay, NoneRevived
<1>3. SnapshotIsReplay'
  BY DEF IInv, SnapshotIsReplay
<1> QED BY <1>1, <1>2, <1>3

\* The ask timer.
LEMMA AskTimeoutKeeps ==
    ASSUME IInv, NEW m \in Msg, AskTimeout(m)
    PROVE  IInv'
<1> USE RuntimeAssumption
<1>1. answer' \in [Msg -> Outcome]
  BY DEF AskTimeout, IInv, TypeOK, Outcome
<1>2. TypeOK'
  BY <1>1 DEF AskTimeout, IInv, TypeOK, runnerVars, entityVars, timerVars, journalVars, askVars, stopVars
<1>3. NoneRevived
  BY DEF AskTimeout, runnerVars, entityVars, timerVars, journalVars, askVars, stopVars, NoneRevived
<1>4. UNCHANGED <<home, state, seqNr, rows, snapshot>>
  BY DEF AskTimeout, runnerVars, entityVars, timerVars, journalVars, askVars, stopVars
<1>5. Homed' /\ StateIsReplay' /\ SnapshotIsReplay'
  BY <1>3, <1>4, QuietKeeps
<1> QED BY <1>2, <1>5 DEF IInv

\* A message is taken.
LEMMA TakeKeeps ==
    ASSUME IInv, NEW r \in Runner, Take(r)
    PROVE  IInv'
<1> USE RuntimeAssumption
<1>1. Head(mailbox[r]) \in Msg /\ Tail(mailbox[r]) \in Seq(Msg \cup {StopMsg})
  BY DEF Take, Idle, IInv, TypeOK
<1>2. DecideFrame(Head(mailbox[r])) \in Frame
  BY <1>1 DEF DecideFrame, Frame, CommandFrame
<1>3. mailbox' \in [Runner -> Seq(Msg \cup {StopMsg})]
  BY <1>1 DEF Take, IInv, TypeOK
<1>4. work' \in [Runner -> Seq(Frame)]
  BY <1>2 DEF Take, IInv, TypeOK
<1>5. pre' \in [Msg -> Nat]
  BY <1>1 DEF Take, IInv, TypeOK
<1>6. TypeOK'
  BY <1>1, <1>2, <1>3, <1>4, <1>5 DEF Take, IInv, TypeOK, runnerVars, entityVars, timerVars, journalVars, askVars, stopVars
<1>7. NoneRevived
  BY DEF Take, runnerVars, entityVars, timerVars, journalVars, askVars, stopVars, NoneRevived
<1>8. UNCHANGED <<home, state, seqNr, rows, snapshot>>
  BY DEF Take, runnerVars, entityVars, timerVars, journalVars, askVars, stopVars
<1>9. Homed' /\ StateIsReplay' /\ SnapshotIsReplay'
  BY <1>7, <1>8, QuietKeeps
<1> QED BY <1>6, <1>9 DEF IInv

\* Stop is taken.
LEMMA TakeStopKeeps ==
    ASSUME IInv, NEW r \in Runner, TakeStop(r)
    PROVE  IInv'
<1> USE RuntimeAssumption
<1>1. Tail(mailbox[r]) \in Seq(Msg \cup {StopMsg})
  BY DEF TakeStop, Idle, IInv, TypeOK
<1>2. mailbox' \in [Runner -> Seq(Msg \cup {StopMsg})]
  BY <1>1 DEF TakeStop, IInv, TypeOK
<1>3. status' \in [Runner -> RunnerStatus]
  BY DEF TakeStop, IInv, TypeOK, RunnerStatus
<1>4. TypeOK'
  BY <1>1, <1>2, <1>3 DEF TakeStop, IInv, TypeOK, runnerVars, entityVars, timerVars, journalVars, askVars, stopVars
<1>5. NoneRevived
  BY DEF TakeStop, Idle, IInv, TypeOK, NoneRevived
<1>6. UNCHANGED <<home, state, seqNr, rows, snapshot>>
  BY DEF TakeStop, runnerVars, entityVars, timerVars, journalVars, askVars, stopVars
<1>7. Homed' /\ StateIsReplay' /\ SnapshotIsReplay'
  BY <1>5, <1>6, QuietKeeps
<1> QED BY <1>4, <1>7 DEF IInv

\* A runner ends.
LEMMA TerminateKeeps ==
    ASSUME IInv, NEW r \in Runner, Terminate(r)
    PROVE  IInv'
<1> USE RuntimeAssumption
<1>1. mailbox' \in [Runner -> Seq(Msg \cup {StopMsg})]
  BY DEF Terminate, IInv, TypeOK
<1>2. timers' \in [Runner -> [TimerId -> Timer \cup {None}]]
  BY DEF Terminate, IInv, TypeOK
<1>3. answer' \in [Msg -> Outcome]
  BY DEF Terminate, IInv, TypeOK, Outcome
<1>4. home[r] \in Entity
  BY DEF Terminate, IInv, Homed
<1>5. entities' \in [Entity -> Runner \cup {None}]
  BY <1>4 DEF Terminate, IInv, TypeOK
<1>6. status' \in [Runner -> RunnerStatus]
  BY DEF Terminate, IInv, TypeOK, RunnerStatus
<1>7. TypeOK'
  BY <1>1, <1>2, <1>3, <1>4, <1>5, <1>6 DEF Terminate, IInv, TypeOK, runnerVars, entityVars, timerVars, journalVars, askVars, stopVars
<1>8. NoneRevived
  BY DEF Terminate, IInv, TypeOK, NoneRevived
<1>9. UNCHANGED <<home, state, seqNr, rows, snapshot>>
  BY DEF Terminate, runnerVars, entityVars, timerVars, journalVars, askVars, stopVars
<1>10. Homed' /\ StateIsReplay' /\ SnapshotIsReplay'
  BY <1>8, <1>9, QuietKeeps
<1> QED BY <1>7, <1>10 DEF IInv

\* tellSelf.
LEMMA TellSelfKeeps ==
    ASSUME IInv, NEW r \in Runner, NEW m \in Msg, TellSelf(r, m)
    PROVE  IInv'
<1> USE RuntimeAssumption
<1>1. mailbox' \in [Runner -> Seq(Msg \cup {StopMsg})]
  BY OfferTyped DEF TellSelf, IInv
<1>2. answer' \in [Msg -> Outcome]
  BY DEF TellSelf, SentTell, IInv, TypeOK, Outcome
<1>3. TypeOK'
  BY <1>1, <1>2 DEF TellSelf, IInv, TypeOK, runnerVars, entityVars, timerVars, journalVars, askVars, stopVars
<1>4. NoneRevived
  BY DEF TellSelf, runnerVars, entityVars, timerVars, journalVars, askVars, stopVars, NoneRevived
<1>5. UNCHANGED <<home, state, seqNr, rows, snapshot>>
  BY DEF TellSelf, runnerVars, entityVars, timerVars, journalVars, askVars, stopVars
<1>6. Homed' /\ StateIsReplay' /\ SnapshotIsReplay'
  BY <1>4, <1>5, QuietKeeps
<1> QED BY <1>3, <1>6 DEF IInv

\* The answer user code waited for.
LEMMA AskReturnsKeeps ==
    ASSUME IInv, NEW r \in Runner, AskReturns(r)
    PROVE  IInv'
<1> USE RuntimeAssumption
<1>1. Top(r) \in Frame
  BY TopTyped DEF AskReturns, IInv
<1>2. [Top(r) EXCEPT !.on = None] \in Frame
  BY <1>1 DEF Frame, CommandFrame, RecoveryFrame
<1>3. <<[Top(r) EXCEPT !.on = None]>> \o Tail(work[r]) \in Seq(Frame)
  BY <1>2, PushTyped DEF AskReturns, IInv
<1>4. work' \in [Runner -> Seq(Frame)]
  BY <1>3 DEF AskReturns, IInv, TypeOK
<1>5. TypeOK'
  BY <1>1, <1>2, <1>3, <1>4 DEF AskReturns, IInv, TypeOK, runnerVars, entityVars, timerVars, journalVars, askVars, stopVars
<1>6. NoneRevived
  BY DEF AskReturns, runnerVars, entityVars, timerVars, journalVars, askVars, stopVars, NoneRevived
<1>7. UNCHANGED <<home, state, seqNr, rows, snapshot>>
  BY DEF AskReturns, runnerVars, entityVars, timerVars, journalVars, askVars, stopVars
<1>8. Homed' /\ StateIsReplay' /\ SnapshotIsReplay'
  BY <1>6, <1>7, QuietKeeps
<1> QED BY <1>5, <1>8 DEF IInv

\* scheduleOnce and schedulePeriodic.
LEMMA ScheduleKeeps ==
    ASSUME IInv, NEW r \in Runner, NEW t \in TimerId, NEW m \in Msg,
           NEW p \in BOOLEAN, Schedule(r, t, m, p)
    PROVE  IInv'
<1> USE RuntimeAssumption
<1>1. [m |-> m, periodic |-> p] \in Timer
  BY DEF Timer
<1>2. timers' \in [Runner -> [TimerId -> Timer \cup {None}]]
  BY <1>1 DEF Schedule, IInv, TypeOK
<1>3. answer' \in [Msg -> Outcome]
  BY DEF Schedule, SentTell, IInv, TypeOK, Outcome
<1>4. TypeOK'
  BY <1>1, <1>2, <1>3 DEF Schedule, IInv, TypeOK, runnerVars, entityVars, timerVars, journalVars, askVars, stopVars
<1>5. NoneRevived
  BY DEF Schedule, runnerVars, entityVars, timerVars, journalVars, askVars, stopVars, NoneRevived
<1>6. UNCHANGED <<home, state, seqNr, rows, snapshot>>
  BY DEF Schedule, runnerVars, entityVars, timerVars, journalVars, askVars, stopVars
<1>7. Homed' /\ StateIsReplay' /\ SnapshotIsReplay'
  BY <1>5, <1>6, QuietKeeps
<1> QED BY <1>4, <1>7 DEF IInv

\* cancelTimer.
LEMMA CancelTimerKeeps ==
    ASSUME IInv, NEW r \in Runner, NEW t \in TimerId, CancelTimer(r, t)
    PROVE  IInv'
<1> USE RuntimeAssumption
<1>1. timers' \in [Runner -> [TimerId -> Timer \cup {None}]]
  BY DEF CancelTimer, IInv, TypeOK
<1>2. TypeOK'
  BY <1>1 DEF CancelTimer, IInv, TypeOK, runnerVars, entityVars, timerVars, journalVars, askVars, stopVars
<1>3. NoneRevived
  BY DEF CancelTimer, runnerVars, entityVars, timerVars, journalVars, askVars, stopVars, NoneRevived
<1>4. UNCHANGED <<home, state, seqNr, rows, snapshot>>
  BY DEF CancelTimer, runnerVars, entityVars, timerVars, journalVars, askVars, stopVars
<1>5. Homed' /\ StateIsReplay' /\ SnapshotIsReplay'
  BY <1>3, <1>4, QuietKeeps
<1> QED BY <1>2, <1>5 DEF IInv

\* A timer fires.
LEMMA TimerFiresKeeps ==
    ASSUME IInv, NEW r \in Runner, NEW t \in TimerId, TimerFires(r, t)
    PROVE  IInv'
<1> USE RuntimeAssumption
<1>1. timers[r][t] \in Timer
  BY DEF TimerFires, IInv, TypeOK
<1>2. timers[r][t].m \in Msg
  BY <1>1 DEF Timer
<1>3. timers' \in [Runner -> [TimerId -> Timer \cup {None}]]
  BY <1>1 DEF TimerFires, IInv, TypeOK
<1>4. mailbox' \in [Runner -> Seq(Msg \cup {StopMsg})]
  BY <1>2, OfferTyped DEF TimerFires, IInv
<1>5. TypeOK'
  BY <1>1, <1>2, <1>3, <1>4 DEF TimerFires, IInv, TypeOK, runnerVars, entityVars, timerVars, journalVars, askVars, stopVars
<1>6. NoneRevived
  BY DEF TimerFires, runnerVars, entityVars, timerVars, journalVars, askVars, stopVars, NoneRevived
<1>7. UNCHANGED <<home, state, seqNr, rows, snapshot>>
  BY DEF TimerFires, runnerVars, entityVars, timerVars, journalVars, askVars, stopVars
<1>8. Homed' /\ StateIsReplay' /\ SnapshotIsReplay'
  BY <1>6, <1>7, QuietKeeps
<1> QED BY <1>5, <1>8 DEF IInv

\* sync starts.
LEMMA SyncKeeps ==
    ASSUME IInv, NEW r \in Runner, NEW m \in Msg, Sync(r, m)
    PROVE  IInv'
<1> USE RuntimeAssumption
<1>1. syncs' \subseteq Runner \X Msg
  BY DEF Sync, IInv, TypeOK
<1>2. answer' \in [Msg -> Outcome]
  BY DEF Sync, SentTell, IInv, TypeOK, Outcome
<1>3. TypeOK'
  BY <1>1, <1>2 DEF Sync, IInv, TypeOK, runnerVars, entityVars, timerVars, journalVars, askVars, stopVars
<1>4. NoneRevived
  BY DEF Sync, runnerVars, entityVars, timerVars, journalVars, askVars, stopVars, NoneRevived
<1>5. UNCHANGED <<home, state, seqNr, rows, snapshot>>
  BY DEF Sync, runnerVars, entityVars, timerVars, journalVars, askVars, stopVars
<1>6. Homed' /\ StateIsReplay' /\ SnapshotIsReplay'
  BY <1>4, <1>5, QuietKeeps
<1> QED BY <1>3, <1>6 DEF IInv

\* sync settles.
LEMMA SyncSettlesKeeps ==
    ASSUME IInv, NEW r \in Runner, NEW m \in Msg, SyncSettles(r, m)
    PROVE  IInv'
<1> USE RuntimeAssumption
<1>1. syncs' \subseteq Runner \X Msg
  BY DEF SyncSettles, IInv, TypeOK
<1>2. mailbox' \in [Runner -> Seq(Msg \cup {StopMsg})]
  BY OfferTyped DEF SyncSettles, IInv
<1>3. TypeOK'
  BY <1>1, <1>2 DEF SyncSettles, IInv, TypeOK, runnerVars, entityVars, timerVars, journalVars, askVars, stopVars
<1>4. NoneRevived
  BY DEF SyncSettles, runnerVars, entityVars, timerVars, journalVars, askVars, stopVars, NoneRevived
<1>5. UNCHANGED <<home, state, seqNr, rows, snapshot>>
  BY DEF SyncSettles, runnerVars, entityVars, timerVars, journalVars, askVars, stopVars
<1>6. Homed' /\ StateIsReplay' /\ SnapshotIsReplay'
  BY <1>4, <1>5, QuietKeeps
<1> QED BY <1>3, <1>6 DEF IInv

\* User code returns.
LEMMA UserCodeReturnsKeeps ==
    ASSUME IInv, NEW r \in Runner, UserCodeReturns(r)
    PROVE  IInv'
<1> USE RuntimeAssumption
<1>1. work[r] # << >> /\ Tail(work[r]) \in Seq(Frame)
  BY TopTyped DEF UserCodeReturns, InUserCode, IInv
<1>2. Top(r).phase # "hook" => [Top(r) EXCEPT !.phase = "effect"] \in Frame
  BY <1>1, TopTyped DEF IInv, Frame, CommandFrame
<1>3. Top(r).phase # "hook" =>
        <<[Top(r) EXCEPT !.phase = "effect"]>> \o Tail(work[r]) \in Seq(Frame)
  BY <1>1, <1>2, PushTyped DEF IInv
<1>4. work' \in [Runner -> Seq(Frame)]
  BY <1>1, <1>3 DEF UserCodeReturns, IInv, TypeOK
<1>5. TypeOK'
  BY <1>1, <1>2, <1>3, <1>4 DEF UserCodeReturns, IInv, TypeOK, runnerVars, entityVars, timerVars, journalVars, askVars, stopVars
<1>6. NoneRevived
  BY DEF UserCodeReturns, runnerVars, entityVars, timerVars, journalVars, askVars, stopVars, NoneRevived
<1>7. UNCHANGED <<home, state, seqNr, rows, snapshot>>
  BY DEF UserCodeReturns, runnerVars, entityVars, timerVars, journalVars, askVars, stopVars
<1>8. Homed' /\ StateIsReplay' /\ SnapshotIsReplay'
  BY <1>6, <1>7, QuietKeeps
<1> QED BY <1>5, <1>8 DEF IInv

\* decide returns Stash.
LEMMA DecideStashKeeps ==
    ASSUME IInv, NEW r \in Runner, DecideStash(r)
    PROVE  IInv'
<1> USE RuntimeAssumption
<1>1. Top(r).m \in Msg /\ Tail(work[r]) \in Seq(Frame)
  BY TopTyped DEF DecideStash, InUserCode, IInv
<1>2. stash[r] \in Seq(Msg)
  BY DEF IInv, TypeOK
<1>3. Append(stash[r], Top(r).m) \in Seq(Msg)
  BY <1>1, <1>2
<1>4. stash' \in [Runner -> Seq(Msg)]
  BY <1>3 DEF DecideStash, IInv, TypeOK
<1>5. work' \in [Runner -> Seq(Frame)]
  BY <1>1 DEF DecideStash, Popped, IInv, TypeOK
<1>6. TypeOK'
  BY <1>1, <1>2, <1>3, <1>4, <1>5 DEF DecideStash, IInv, TypeOK, runnerVars, entityVars, timerVars, journalVars, askVars, stopVars
<1>7. NoneRevived
  BY DEF DecideStash, runnerVars, entityVars, timerVars, journalVars, askVars, stopVars, NoneRevived
<1>8. UNCHANGED <<home, state, seqNr, rows, snapshot>>
  BY DEF DecideStash, runnerVars, entityVars, timerVars, journalVars, askVars, stopVars
<1>9. Homed' /\ StateIsReplay' /\ SnapshotIsReplay'
  BY <1>7, <1>8, QuietKeeps
<1> QED BY <1>6, <1>9 DEF IInv

\* An exception before anything was written.
LEMMA ThrowKeeps ==
    ASSUME IInv, NEW r \in Runner, Throw(r)
    PROVE  IInv'
<1> USE RuntimeAssumption
<1>1. work[r] # << >> /\ status[r] = "live"
  BY DEF Throw, InUserCode, AtChainedEffect, AtEffect
<1>2. /\ status' \in [Runner -> RunnerStatus]
      /\ work' \in [Runner -> Seq(Frame)]
      /\ answer' \in [Msg -> Outcome]
  BY <1>1, CrashTyped DEF Throw, IInv
<1>3. TypeOK'
  BY <1>1, <1>2 DEF Throw, IInv, TypeOK, runnerVars, entityVars, timerVars, journalVars, askVars, stopVars
<1>4. NoneRevived
  BY <1>1 DEF Throw, Crash, IInv, TypeOK, NoneRevived
<1>5. UNCHANGED <<home, state, seqNr, rows, snapshot>>
  BY DEF Throw, runnerVars, entityVars, timerVars, journalVars, askVars, stopVars
<1>6. Homed' /\ StateIsReplay' /\ SnapshotIsReplay'
  BY <1>4, <1>5, QuietKeeps
<1> QED BY <1>3, <1>6 DEF IInv

\* The journal refuses a batch.
LEMMA PersistDuplicateKeeps ==
    ASSUME IInv, NEW r \in Runner, NEW k \in Nat, PersistDuplicate(r, k)
    PROVE  IInv'
<1> USE RuntimeAssumption
<1>1. work[r] # << >> /\ status[r] = "live"
  BY DEF PersistDuplicate, AtChainedEffect, AtEffect
<1>2. /\ status' \in [Runner -> RunnerStatus]
      /\ work' \in [Runner -> Seq(Frame)]
      /\ answer' \in [Msg -> Outcome]
  BY <1>1, CrashTyped DEF PersistDuplicate, IInv
<1>3. TypeOK'
  BY <1>1, <1>2 DEF PersistDuplicate, IInv, TypeOK, runnerVars, entityVars, timerVars, journalVars, askVars, stopVars
<1>4. NoneRevived
  BY <1>1 DEF PersistDuplicate, Crash, IInv, TypeOK, NoneRevived
<1>5. UNCHANGED <<home, state, seqNr, rows, snapshot>>
  BY DEF PersistDuplicate, runnerVars, entityVars, timerVars, journalVars, askVars, stopVars
<1>6. Homed' /\ StateIsReplay' /\ SnapshotIsReplay'
  BY <1>4, <1>5, QuietKeeps
<1> QED BY <1>3, <1>6 DEF IInv

\* Run.
LEMMA RunKeeps ==
    ASSUME IInv, NEW r \in Runner, Run(r)
    PROVE  IInv'
<1> USE RuntimeAssumption
<1>1. work[r] # << >> /\ Top(r) \in CommandFrame /\ Top(r).left > 1
  BY TopTyped DEF Run, AtChainedEffect, AtEffect, IInv
<1>2. Top(r).left \in Nat /\ Top(r).left - 1 \in Nat
  BY <1>1 DEF CommandFrame
<1>3. [Top(r) EXCEPT !.phase = "run", !.left = @ - 1] \in Frame
  BY <1>1, <1>2 DEF Frame, CommandFrame
<1>4. <<[Top(r) EXCEPT !.phase = "run", !.left = @ - 1]>> \o Tail(work[r]) \in Seq(Frame)
  BY <1>1, <1>3, PushTyped DEF IInv
<1>5. work' \in [Runner -> Seq(Frame)]
  BY <1>4 DEF Run, IInv, TypeOK
<1>6. TypeOK'
  BY <1>1, <1>2, <1>3, <1>4, <1>5 DEF Run, IInv, TypeOK, runnerVars, entityVars, timerVars, journalVars, askVars, stopVars
<1>7. NoneRevived
  BY DEF Run, runnerVars, entityVars, timerVars, journalVars, askVars, stopVars, NoneRevived
<1>8. UNCHANGED <<home, state, seqNr, rows, snapshot>>
  BY DEF Run, runnerVars, entityVars, timerVars, journalVars, askVars, stopVars
<1>9. Homed' /\ StateIsReplay' /\ SnapshotIsReplay'
  BY <1>7, <1>8, QuietKeeps
<1> QED BY <1>6, <1>9 DEF IInv

\* Reply and Done.
LEMMA ReplyKeeps ==
    ASSUME IInv, NEW r \in Runner, Reply(r)
    PROVE  IInv'
<1> USE RuntimeAssumption
<1>1. Top(r).m \in Msg /\ Tail(work[r]) \in Seq(Frame)
  BY TopTyped DEF Reply, AtEffect, IInv
<1>2. "ok" \in Outcome /\ seqNr[r] \in Nat
  BY DEF Outcome, IInv, TypeOK
<1>3. answer' \in [Msg -> Outcome] /\ post' \in [Msg -> Nat]
  BY <1>1, <1>2, SettleTyped DEF Reply, IInv
<1>4. work' \in [Runner -> Seq(Frame)]
  BY <1>1 DEF Reply, Popped, IInv, TypeOK
<1>5. TypeOK'
  BY <1>1, <1>2, <1>3, <1>4 DEF Reply, IInv, TypeOK, runnerVars, entityVars, timerVars, journalVars, askVars, stopVars
<1>6. NoneRevived
  BY DEF Reply, runnerVars, entityVars, timerVars, journalVars, askVars, stopVars, NoneRevived
<1>7. UNCHANGED <<home, state, seqNr, rows, snapshot>>
  BY DEF Reply, runnerVars, entityVars, timerVars, journalVars, askVars, stopVars
<1>8. Homed' /\ StateIsReplay' /\ SnapshotIsReplay'
  BY <1>6, <1>7, QuietKeeps
<1> QED BY <1>5, <1>8 DEF IInv

\* ReplyDeferred.
LEMMA ReplyDeferredKeeps ==
    ASSUME IInv, NEW r \in Runner, ReplyDeferred(r)
    PROVE  IInv'
<1> USE RuntimeAssumption
<1>1. Top(r).m \in Msg /\ Tail(work[r]) \in Seq(Frame)
  BY TopTyped DEF ReplyDeferred, AtEffect, IInv
<1>2. held' \in [Msg -> Nat \cup {-1}]
  BY <1>1 DEF ReplyDeferred, IInv, TypeOK
<1>3. work' \in [Runner -> Seq(Frame)]
  BY <1>1 DEF ReplyDeferred, Popped, IInv, TypeOK
<1>4. TypeOK'
  BY <1>1, <1>2, <1>3 DEF ReplyDeferred, IInv, TypeOK, runnerVars, entityVars, timerVars, journalVars, askVars, stopVars
<1>5. NoneRevived
  BY DEF ReplyDeferred, runnerVars, entityVars, timerVars, journalVars, askVars, stopVars, NoneRevived
<1>6. UNCHANGED <<home, state, seqNr, rows, snapshot>>
  BY DEF ReplyDeferred, runnerVars, entityVars, timerVars, journalVars, askVars, stopVars
<1>7. Homed' /\ StateIsReplay' /\ SnapshotIsReplay'
  BY <1>5, <1>6, QuietKeeps
<1> QED BY <1>4, <1>7 DEF IInv

\* A deferred reply settles.
LEMMA CompleteDeferredKeeps ==
    ASSUME IInv, NEW m \in Msg, CompleteDeferred(m)
    PROVE  IInv'
<1> USE RuntimeAssumption
<1>1. post \in [Msg -> Nat] /\ held[m] \in Nat /\ "ok" \in Outcome /\ "timeout" \in Outcome
  BY DEF CompleteDeferred, Outcome, IInv, TypeOK
<1>2. answer' \in [Msg -> Outcome]
  BY <1>1, SettleTyped DEF CompleteDeferred, IInv
<1>3. post' \in [Msg -> Nat]
  BY <1>1, SettleTyped DEF CompleteDeferred, IInv
<1>4. held' \in [Msg -> Nat \cup {-1}]
  BY DEF CompleteDeferred, IInv, TypeOK
<1>5. TypeOK'
  BY <1>1, <1>2, <1>3, <1>4 DEF CompleteDeferred, IInv, TypeOK, runnerVars, entityVars, timerVars, journalVars, askVars, stopVars
<1>6. NoneRevived
  BY DEF CompleteDeferred, runnerVars, entityVars, timerVars, journalVars, askVars, stopVars, NoneRevived
<1>7. UNCHANGED <<home, state, seqNr, rows, snapshot>>
  BY DEF CompleteDeferred, runnerVars, entityVars, timerVars, journalVars, askVars, stopVars
<1>8. Homed' /\ StateIsReplay' /\ SnapshotIsReplay'
  BY <1>6, <1>7, QuietKeeps
<1> QED BY <1>5, <1>8 DEF IInv

\* The Stop effect.
LEMMA StopKeeps ==
    ASSUME IInv, NEW r \in Runner, Stop(r)
    PROVE  IInv'
<1> USE RuntimeAssumption
<1>1. Tail(work[r]) \in Seq(Frame)
  BY TopTyped DEF Stop, AtEffect, IInv
<1>2. mailbox' \in [Runner -> Seq(Msg \cup {StopMsg})]
  BY OfferTyped DEF Stop, IInv
<1>3. work' \in [Runner -> Seq(Frame)]
  BY <1>1 DEF Stop, Popped, IInv, TypeOK
<1>4. TypeOK'
  BY <1>1, <1>2, <1>3 DEF Stop, IInv, TypeOK, runnerVars, entityVars, timerVars, journalVars, askVars, stopVars
<1>5. NoneRevived
  BY DEF Stop, runnerVars, entityVars, timerVars, journalVars, askVars, stopVars, NoneRevived
<1>6. UNCHANGED <<home, state, seqNr, rows, snapshot>>
  BY DEF Stop, runnerVars, entityVars, timerVars, journalVars, askVars, stopVars
<1>7. Homed' /\ StateIsReplay' /\ SnapshotIsReplay'
  BY <1>5, <1>6, QuietKeeps
<1> QED BY <1>4, <1>7 DEF IInv

\* A Stash inside a chain.
LEMMA StashInChainKeeps ==
    ASSUME IInv, NEW r \in Runner, StashInChain(r)
    PROVE  IInv'
<1> USE RuntimeAssumption
<1>1. Tail(work[r]) \in Seq(Frame)
  BY TopTyped DEF StashInChain, AtEffect, IInv
<1>2. work' \in [Runner -> Seq(Frame)]
  BY <1>1 DEF StashInChain, Popped, IInv, TypeOK
<1>3. TypeOK'
  BY <1>1, <1>2 DEF StashInChain, IInv, TypeOK, runnerVars, entityVars, timerVars, journalVars, askVars, stopVars
<1>4. NoneRevived
  BY DEF StashInChain, runnerVars, entityVars, timerVars, journalVars, askVars, stopVars, NoneRevived
<1>5. UNCHANGED <<home, state, seqNr, rows, snapshot>>
  BY DEF StashInChain, runnerVars, entityVars, timerVars, journalVars, askVars, stopVars
<1>6. Homed' /\ StateIsReplay' /\ SnapshotIsReplay'
  BY <1>4, <1>5, QuietKeeps
<1> QED BY <1>3, <1>6 DEF IInv

\* Unstash.
LEMMA UnstashKeeps ==
    ASSUME IInv, NEW r \in Runner, Unstash(r)
    PROVE  IInv'
<1> USE RuntimeAssumption
<1>1. stash[r] \in Seq(Msg)
  BY DEF IInv, TypeOK
<1>2. \A i \in 1 .. Len(stash[r]) : DecideFrame(stash[r][i]) \in Frame
  BY <1>1 DEF DecideFrame, Frame, CommandFrame
<1>3. [i \in 1 .. Len(stash[r]) |-> DecideFrame(stash[r][i])] \in Seq(Frame)
  BY <1>1, <1>2
<1>4. Consumed(r) \in Seq(Frame)
  BY ConsumedTyped DEF Unstash, IInv
<1>5. [i \in 1 .. Len(stash[r]) |-> DecideFrame(stash[r][i])] \o Consumed(r) \in Seq(Frame)
  BY <1>3, <1>4, ConcatProperties
<1>6. work' \in [Runner -> Seq(Frame)]
  BY <1>5 DEF Unstash, IInv, TypeOK
<1>7. stash' \in [Runner -> Seq(Msg)]
  BY DEF Unstash, IInv, TypeOK
<1>8. TypeOK'
  BY <1>1, <1>2, <1>3, <1>4, <1>5, <1>6, <1>7 DEF Unstash, IInv, TypeOK, runnerVars, entityVars, timerVars, journalVars, askVars, stopVars
<1>9. NoneRevived
  BY DEF Unstash, runnerVars, entityVars, timerVars, journalVars, askVars, stopVars, NoneRevived
<1>10. UNCHANGED <<home, state, seqNr, rows, snapshot>>
  BY DEF Unstash, runnerVars, entityVars, timerVars, journalVars, askVars, stopVars
<1>11. Homed' /\ StateIsReplay' /\ SnapshotIsReplay'
  BY <1>9, <1>10, QuietKeeps
<1> QED BY <1>8, <1>11 DEF IInv

\* shutdown() starts.
LEMMA ShutdownBeginKeeps ==
    ASSUME IInv, ShutdownBegin
    PROVE  IInv'
<1> USE RuntimeAssumption
<1>1. awaited' \subseteq Runner
  BY DEF ShutdownBegin, Mapped, IInv, TypeOK
<1>2. \A q \in Runner : Append(mailbox[q], StopMsg) \in Seq(Msg \cup {StopMsg})
  BY DEF IInv, TypeOK
<1>3. mailbox' \in [Runner -> Seq(Msg \cup {StopMsg})]
  BY <1>2 DEF ShutdownBegin, IInv, TypeOK
<1>4. TypeOK'
  BY <1>1, <1>2, <1>3 DEF ShutdownBegin, IInv, TypeOK, runnerVars, entityVars, timerVars, journalVars, askVars, stopVars
<1>5. NoneRevived
  BY DEF ShutdownBegin, runnerVars, entityVars, timerVars, journalVars, askVars, stopVars, NoneRevived
<1>6. UNCHANGED <<home, state, seqNr, rows, snapshot>>
  BY DEF ShutdownBegin, runnerVars, entityVars, timerVars, journalVars, askVars, stopVars
<1>7. Homed' /\ StateIsReplay' /\ SnapshotIsReplay'
  BY <1>5, <1>6, QuietKeeps
<1> QED BY <1>4, <1>7 DEF IInv

\* shutdown() ends.
LEMMA ShutdownEndKeeps ==
    ASSUME IInv, ShutdownEnd
    PROVE  IInv'
<1> USE RuntimeAssumption
<1>1. entities' \in [Entity -> Runner \cup {None}]
  BY DEF ShutdownEnd
<1>2. TypeOK'
  BY <1>1 DEF ShutdownEnd, IInv, TypeOK, runnerVars, entityVars, timerVars, journalVars, askVars, stopVars
<1>3. NoneRevived
  BY DEF ShutdownEnd, runnerVars, entityVars, timerVars, journalVars, askVars, stopVars, NoneRevived
<1>4. UNCHANGED <<home, state, seqNr, rows, snapshot>>
  BY DEF ShutdownEnd, runnerVars, entityVars, timerVars, journalVars, askVars, stopVars
<1>5. Homed' /\ StateIsReplay' /\ SnapshotIsReplay'
  BY <1>3, <1>4, QuietKeeps
<1> QED BY <1>2, <1>5 DEF IInv
\* A client's tell.
LEMMA ClientTellKeeps ==
    ASSUME IInv, NEW e \in Entity, NEW m \in Msg, ClientTell(e, m)
    PROVE  IInv'
<1> USE RuntimeAssumption
<1>1. Deliver(e, m, work) /\ UNCHANGED journalVars
  BY DEF ClientTell
<1>2. work \in [Runner -> Seq(Frame)]
  BY DEF IInv, TypeOK
<1>3. DeliverTyped /\ Homed' /\ StateIsReplay' /\ SnapshotIsReplay'
  BY <1>1, <1>2, DeliverKeeps
<1>4. answer' \in [Msg -> Outcome]
  BY DEF ClientTell, SentTell, IInv, TypeOK, Outcome
<1>5. TypeOK'
  BY <1>3, <1>4 DEF ClientTell, DeliverTyped, IInv, TypeOK, timerVars, journalVars,
                    stopVars
<1> QED BY <1>3, <1>5 DEF IInv

\* A client's ask.
LEMMA ClientAskKeeps ==
    ASSUME IInv, NEW e \in Entity, NEW m \in Msg, ClientAsk(e, m)
    PROVE  IInv'
<1> USE RuntimeAssumption
<1>1. Deliver(e, m, work) /\ UNCHANGED journalVars
  BY DEF ClientAsk
<1>2. work \in [Runner -> Seq(Frame)]
  BY DEF IInv, TypeOK
<1>3. DeliverTyped /\ Homed' /\ StateIsReplay' /\ SnapshotIsReplay'
  BY <1>1, <1>2, DeliverKeeps
<1>4. answer' \in [Msg -> Outcome]
  BY DEF ClientAsk, SentAsk, IInv, TypeOK, Outcome
<1>5. TypeOK'
  BY <1>3, <1>4 DEF ClientAsk, DeliverTyped, IInv, TypeOK, timerVars, journalVars,
                    stopVars
<1> QED BY <1>3, <1>5 DEF IInv

\* A tell from user code.
LEMMA CtxTellKeeps ==
    ASSUME IInv, NEW r \in Runner, NEW e \in Entity, NEW m \in Msg, CtxTell(r, e, m)
    PROVE  IInv'
<1> USE RuntimeAssumption
<1>1. Deliver(e, m, work) /\ UNCHANGED journalVars
  BY DEF CtxTell
<1>2. work \in [Runner -> Seq(Frame)]
  BY DEF IInv, TypeOK
<1>3. DeliverTyped /\ Homed' /\ StateIsReplay' /\ SnapshotIsReplay'
  BY <1>1, <1>2, DeliverKeeps
<1>4. answer' \in [Msg -> Outcome]
  BY DEF CtxTell, SentTell, IInv, TypeOK, Outcome
<1>5. TypeOK'
  BY <1>3, <1>4 DEF CtxTell, DeliverTyped, IInv, TypeOK, timerVars, journalVars,
                    stopVars
<1> QED BY <1>3, <1>5 DEF IInv

\* An ask from user code.
LEMMA CtxAskKeeps ==
    ASSUME IInv, NEW r \in Runner, NEW e \in Entity, NEW m \in Msg, CtxAsk(r, e, m)
    PROVE  IInv'
<1> USE RuntimeAssumption
<1> DEFINE w == [work EXCEPT ![r] = <<[Top(r) EXCEPT !.on = m]>> \o Tail(@)]
<1>a. work[r] # << >> /\ Top(r) \in Frame
  BY TopTyped DEF CtxAsk, InUserCode, IInv
<1>b. <<[Top(r) EXCEPT !.on = m]>> \o Tail(work[r]) \in Seq(Frame)
  <2>1. [Top(r) EXCEPT !.on = m] \in Frame
    BY <1>a DEF Frame, CommandFrame, RecoveryFrame
  <2> QED BY <1>a, <2>1, PushTyped DEF IInv
<1>1. Deliver(e, m, w) /\ UNCHANGED journalVars
  BY DEF CtxAsk
<1>2. w \in [Runner -> Seq(Frame)]
  BY <1>b DEF IInv, TypeOK
<1>3. DeliverTyped /\ Homed' /\ StateIsReplay' /\ SnapshotIsReplay'
  BY <1>1, <1>2, DeliverKeeps
<1>4. answer' \in [Msg -> Outcome]
  BY DEF CtxAsk, SentAsk, IInv, TypeOK, Outcome
<1>5. TypeOK'
  BY <1>3, <1>4 DEF CtxAsk, DeliverTyped, IInv, TypeOK, timerVars, journalVars,
                    stopVars
<1> QED BY <1>3, <1>5 DEF IInv

\* A batch that the journal accepts is appended to it, which changes no
\* runner's replay, and no snapshot's.
LEMMA WriteKeeps ==
    ASSUME IInv, NEW r \in Runner, AtChainedEffect(r), NEW k \in Nat,
           NEW m \in Msg, ~IsDuplicate(rows[home[r]], seqNr[r], k),
           rows' = [rows EXCEPT ![home[r]] = PersistRows(@, seqNr[r], k, m)]
    PROVE  /\ home[r] \in Entity
           /\ rows' = [rows EXCEPT ![home[r]] = @ \o Events(m, k)]
           /\ rows' \in [Entity -> Seq(Msg)]
           /\ Events(m, k) \in Seq(Msg) /\ Len(Events(m, k)) = k
           /\ k > 0 => seqNr[r] = Len(rows[home[r]])
           /\ \A e \in Entity, n \in Nat : n <= Len(rows[e]) =>
                 n <= Len(rows'[e]) /\ Prefix(rows'[e], n) = Prefix(rows[e], n)
<1>1. status[r] = "live" /\ home[r] \in Entity
  BY DEF AtChainedEffect, AtEffect, IInv, Homed
<1>2. rows[home[r]] \in Seq(Msg) /\ seqNr[r] \in 0 .. Len(rows[home[r]])
  BY <1>1 DEF IInv, TypeOK, StateIsReplay
<1>3. Events(m, k) \in Seq(Msg) /\ Len(Events(m, k)) = k
  BY DEF Events
<1>4. /\ PersistRows(rows[home[r]], seqNr[r], k, m)
            = rows[home[r]] \o [i \in 1 .. k |-> m]
      /\ k > 0 => seqNr[r] = Len(rows[home[r]])
  <2> DEFINE q == rows[home[r]]
             n == seqNr[r]
  <2>1. q \in Seq(Msg) /\ n \in 0 .. Len(q) /\ ~IsDuplicate(q, n, k)
    BY <1>2
  <2> HIDE DEF q, n
  <2>2. /\ PersistRows(q, n, k, m) = q \o [i \in 1 .. k |-> m]
        /\ k > 0 => n = Len(q)
    BY <2>1, PersistAppends, SMTT(60)
  <2> QED BY <2>2 DEF q, n
<1>5. rows' = [rows EXCEPT ![home[r]] = @ \o Events(m, k)]
  BY <1>4 DEF Events
<1>6. rows[home[r]] \o Events(m, k) \in Seq(Msg)
  BY <1>2, <1>3, ConcatProperties
<1>7. rows' \in [Entity -> Seq(Msg)]
  BY <1>1, <1>5, <1>6 DEF IInv, TypeOK
<1>8. ASSUME NEW e \in Entity, NEW n \in Nat, n <= Len(rows[e])
      PROVE  n <= Len(rows'[e]) /\ Prefix(rows'[e], n) = Prefix(rows[e], n)
  <2>1. CASE e = home[r]
    <3>1. rows'[e] = rows[e] \o Events(m, k)
      BY <1>1, <1>5, <2>1 DEF IInv, TypeOK
    <3>2. rows[e] \in Seq(Msg) /\ n \in 0 .. Len(rows[e])
      BY <1>8 DEF IInv, TypeOK
    <3>3. /\ Prefix(rows[e] \o Events(m, k), n) = Prefix(rows[e], n)
          /\ n <= Len(rows[e] \o Events(m, k))
      BY <1>3, <3>2, PrefixOfAppend
    <3> QED BY <3>1, <3>3
  <2>2. CASE e # home[r]
    <3>1. rows'[e] = rows[e]
      BY <1>5, <2>2 DEF IInv, TypeOK
    <3> QED BY <1>8, <3>1
  <2> QED BY <2>1, <2>2
<1> QED BY <1>1, <1>3, <1>4, <1>5, <1>7, <1>8

\* A runner's state followed by its new events is the journal they complete.
LEMMA AppliedIsReplay ==
    ASSUME NEW S, NEW q \in Seq(S), NEW evs \in Seq(S), NEW n \in 0 .. Len(q),
           Len(evs) > 0 => n = Len(q)
    PROVE  /\ n + Len(evs) <= Len(q \o evs)
           /\ Prefix(q, n) \o evs = Prefix(q \o evs, n + Len(evs))
<1>1. Len(q) \in Nat /\ Len(evs) \in Nat /\ Len(q \o evs) = Len(q) + Len(evs)
      /\ q \o evs \in Seq(S)
  BY ConcatProperties
<1>2. CASE Len(evs) = 0
  <2>1. evs = << >>
    BY <1>2
  <2>2. q \o evs = q /\ Prefix(q, n) \o evs = Prefix(q, n)
    BY <2>1, ConcatEmptySeq, PrefixAndRest
  <2>3. n + Len(evs) = n /\ n <= Len(q)
    BY <1>2, <1>1
  <2> QED BY <2>2, <2>3
<1>3. CASE Len(evs) > 0
  <2>1. n = Len(q) /\ n + Len(evs) = Len(q \o evs)
    BY <1>1, <1>3
  <2>a. Prefix(q, Len(q)) = q
    BY PrefixAndRest
  <2>b. 0 \in 0 .. Len(q \o evs)
    BY <1>1
  <2>c. Prefix(q \o evs, Len(q \o evs)) = q \o evs
    BY <1>1, <2>b, PrefixAndRest
  <2>2. Prefix(q, n) = q /\ Prefix(q \o evs, Len(q \o evs)) = q \o evs
    BY <2>1, <2>a, <2>c
  <2>3. Len(q \o evs) <= Len(q \o evs)
    BY <1>1
  <2> QED BY <2>1, <2>2, <2>3
<1> QED BY <1>1, <1>2, <1>3
\* Persist: the writer's state stays the replay of its longer prefix, the other
\* runners' and the old snapshot's prefixes are untouched, and an auto-snapshot
\* stores the writer's new state under its new number.
LEMMA PersistKeeps ==
    ASSUME IInv, NEW r \in Runner, NEW k \in Nat, Persist(r, k)
    PROVE  IInv'
<1> USE RuntimeAssumption
<1> DEFINE e   == home[r]
           m   == Top(r).m
           evs == Events(m, k)
<1>1. /\ AtChainedEffect(r) /\ status[r] = "live" /\ work[r] # << >>
      /\ Top(r).phase = "effect"
  BY DEF Persist, AtChainedEffect, AtEffect
<1>2. m \in Msg
  BY <1>1, TopTyped DEF IInv
<1>3. /\ ~IsDuplicate(rows[home[r]], seqNr[r], k)
      /\ rows' = [rows EXCEPT ![home[r]] = PersistRows(@, seqNr[r], k, m)]
  BY DEF Persist
<1>4. /\ e \in Entity
      /\ rows' = [rows EXCEPT ![e] = @ \o evs]
      /\ rows' \in [Entity -> Seq(Msg)]
      /\ evs \in Seq(Msg) /\ Len(evs) = k
      /\ k > 0 => seqNr[r] = Len(rows[e])
      /\ \A d \in Entity, n \in Nat : n <= Len(rows[d]) =>
            n <= Len(rows'[d]) /\ Prefix(rows'[d], n) = Prefix(rows[d], n)
  BY <1>1, <1>2, <1>3, WriteKeeps
<1>5. /\ rows[e] \in Seq(Msg) /\ seqNr[r] \in 0 .. Len(rows[e])
      /\ state[r] = Prefix(rows[e], seqNr[r])
      /\ rows'[e] = rows[e] \o evs /\ seqNr[r] \in Nat
  <2>1. rows[e] \in Seq(Msg) /\ Len(rows[e]) \in Nat /\ seqNr[r] \in Nat
    BY <1>4 DEF IInv, TypeOK
  <2>2. seqNr[r] <= Len(rows[e]) /\ state[r] = Prefix(rows[e], seqNr[r])
    BY <1>1 DEF IInv, StateIsReplay
  <2>3. rows'[e] = rows[e] \o evs
    BY <1>4 DEF IInv, TypeOK
  <2>4. seqNr[r] \in 0 .. Len(rows[e])
    BY <2>1, <2>2
  <2> QED BY <2>1, <2>2, <2>3, <2>4
<1>6. /\ state' = [state EXCEPT ![r] = @ \o evs]
      /\ seqNr' = [seqNr EXCEPT ![r] = @ + k]
      /\ home' = home /\ status' = status
      /\ snapshot' = AutoSnapshot(r, m, k)
  BY DEF Persist
<1> HIDE DEF e, m, evs
<1>7. /\ seqNr[r] + k <= Len(rows'[e])
      /\ state[r] \o evs = Prefix(rows'[e], seqNr[r] + k)
  <2>1. Len(evs) > 0 => seqNr[r] = Len(rows[e])
    BY <1>4
  <2>2. /\ seqNr[r] + Len(evs) <= Len(rows[e] \o evs)
        /\ Prefix(rows[e], seqNr[r]) \o evs = Prefix(rows[e] \o evs, seqNr[r] + Len(evs))
    <3> DEFINE q == rows[e]
               n == seqNr[r]
    <3>1. q \in Seq(Msg) /\ evs \in Seq(Msg) /\ n \in 0 .. Len(q)
          /\ (Len(evs) > 0 => n = Len(q))
      BY <1>4, <1>5, <2>1
    <3> HIDE DEF q, n
    <3>2. /\ n + Len(evs) <= Len(q \o evs)
          /\ Prefix(q, n) \o evs = Prefix(q \o evs, n + Len(evs))
      BY <3>1, AppliedIsReplay
    <3> QED BY <3>2 DEF q, n
  <2> QED BY <1>4, <1>5, <2>2
<1>8. StateIsReplay'
  <2> SUFFICES ASSUME NEW q \in Runner, status'[q] = "live"
               PROVE  /\ seqNr'[q] <= Len(rows'[home'[q]])
                      /\ state'[q] = Prefix(rows'[home'[q]], seqNr'[q])
    BY DEF StateIsReplay
  <2>1. CASE q = r
    <3>1. /\ seqNr'[q] = seqNr[r] + k /\ state'[q] = state[r] \o evs
          /\ home'[q] = e
      BY <1>6, <2>1 DEF IInv, TypeOK, e
    <3> QED BY <1>7, <3>1
  <2>2. CASE q # r
    <3>1. /\ seqNr'[q] = seqNr[q] /\ state'[q] = state[q] /\ home'[q] = home[q]
          /\ status[q] = "live"
      BY <1>6, <2>2 DEF IInv, TypeOK
    <3>2. /\ home[q] \in Entity /\ seqNr[q] \in Nat
          /\ seqNr[q] <= Len(rows[home[q]])
          /\ state[q] = Prefix(rows[home[q]], seqNr[q])
      BY <3>1 DEF IInv, TypeOK, Homed, StateIsReplay
    <3> QED BY <1>4, <3>1, <3>2
  <2> QED BY <2>1, <2>2
<1>9. state[r] \o evs \in Seq(Msg)
  BY <1>4, ConcatProperties DEF IInv, TypeOK
<1>10. ASSUME SnapshotDue(since[r] + k)
       PROVE  snapshot' \in [Entity -> [seq : Nat, state : Seq(Msg)]] /\ SnapshotIsReplay'
  <2>1. snapshot' = [snapshot EXCEPT ![e] = [seq   |-> seqNr[r] + k,
                                              state |-> state[r] \o evs]]
    BY <1>6, <1>10 DEF AutoSnapshot, e, evs
  <2>2. snapshot' \in [Entity -> [seq : Nat, state : Seq(Msg)]]
    <3>1. [seq |-> seqNr[r] + k, state |-> state[r] \o evs]
              \in [seq : Nat, state : Seq(Msg)]
      BY <1>5, <1>9
    <3> QED BY <2>1, <3>1 DEF IInv, TypeOK
  <2>3. SnapshotIsReplay'
    <3> SUFFICES ASSUME NEW d \in Entity
                 PROVE  /\ snapshot'[d].seq <= Len(rows'[d])
                        /\ snapshot'[d].state = Prefix(rows'[d], snapshot'[d].seq)
      BY DEF SnapshotIsReplay
    <3>1. CASE d = e
      <4>1. snapshot'[d].seq = seqNr[r] + k /\ snapshot'[d].state = state[r] \o evs
        BY <2>1, <3>1 DEF IInv, TypeOK
      <4> QED BY <1>7, <3>1, <4>1
    <3>2. CASE d # e
      <4>1. snapshot'[d] = snapshot[d]
        BY <2>1, <3>2 DEF IInv, TypeOK
      <4>2. /\ snapshot[d].seq \in Nat /\ snapshot[d].seq <= Len(rows[d])
            /\ snapshot[d].state = Prefix(rows[d], snapshot[d].seq)
        BY DEF IInv, TypeOK, SnapshotIsReplay
      <4> QED BY <1>4, <4>1, <4>2
    <3> QED BY <3>1, <3>2
  <2> QED BY <2>2, <2>3
<1>11. ASSUME ~SnapshotDue(since[r] + k)
       PROVE  snapshot' \in [Entity -> [seq : Nat, state : Seq(Msg)]] /\ SnapshotIsReplay'
  <2>1. snapshot' = snapshot
    BY <1>6, <1>11 DEF AutoSnapshot
  <2>2. snapshot' \in [Entity -> [seq : Nat, state : Seq(Msg)]]
    BY <2>1 DEF IInv, TypeOK
  <2>3. ASSUME NEW d \in Entity
        PROVE  /\ snapshot[d].seq <= Len(rows'[d])
               /\ snapshot[d].state = Prefix(rows'[d], snapshot[d].seq)
    <3>1. /\ snapshot[d].seq \in Nat /\ snapshot[d].seq <= Len(rows[d])
          /\ snapshot[d].state = Prefix(rows[d], snapshot[d].seq)
      BY DEF IInv, TypeOK, SnapshotIsReplay
    <3> QED BY <1>4, <3>1
  <2>4. SnapshotIsReplay'
    BY <2>1, <2>3 DEF SnapshotIsReplay
  <2> QED BY <2>2, <2>4
<1>12. snapshot' \in [Entity -> [seq : Nat, state : Seq(Msg)]] /\ SnapshotIsReplay'
  BY <1>10, <1>11
<1>13. TypeOK'
  <2>1. /\ state' \in [Runner -> Seq(Msg)] /\ seqNr' \in [Runner -> Nat]
    BY <1>5, <1>6, <1>9, SMTT(30) DEF IInv, TypeOK
  <2>2. since' \in [Runner -> Nat]
    BY DEF Persist, IInv, TypeOK
  <2>3. published' \in [Entity -> Seq([seq : Nat, ev : Msg])]
    <3>1. Records(seqNr[r], m, k) \in Seq([seq : Nat, ev : Msg])
      BY <1>2, <1>5 DEF Records
    <3>2. published[e] \o Records(seqNr[r], m, k) \in Seq([seq : Nat, ev : Msg])
      BY <1>4, <3>1, ConcatProperties, ZenonT(40) DEF IInv, TypeOK
    <3>3. published' = [published EXCEPT ![e] = @ \o Records(seqNr[r], m, k)]
      BY DEF Persist, e, m
    <3> QED BY <3>2, <3>3 DEF IInv, TypeOK
  <2>4. work' \in [Runner -> Seq(Frame)]
    BY <1>1, ConsumedTyped DEF Persist, IInv, TypeOK
  <2> QED BY <1>4, <1>12, <2>1, <2>2, <2>3, <2>4
          DEF Persist, IInv, TypeOK, timerVars, askVars, stopVars
<1>14. Homed'
  BY <1>6 DEF IInv, Homed
<1> QED BY <1>8, <1>12, <1>13, <1>14 DEF IInv

\* The write succeeds and the runner crashes: the journal is ahead of its
\* state, which no live runner holds any more.
LEMMA PersistThenThrowKeeps ==
    ASSUME IInv, NEW r \in Runner, NEW k \in Nat, PersistThenThrow(r, k)
    PROVE  IInv'
<1> USE RuntimeAssumption
<1> DEFINE m == Top(r).m
<1>1. /\ AtChainedEffect(r) /\ status[r] = "live" /\ work[r] # << >>
      /\ Top(r).phase = "effect" /\ Crash(r)
  BY DEF PersistThenThrow, AtChainedEffect, AtEffect
<1>2. m \in Msg
  BY <1>1, TopTyped DEF IInv
<1>3. /\ ~IsDuplicate(rows[home[r]], seqNr[r], k)
      /\ rows' = [rows EXCEPT ![home[r]] = PersistRows(@, seqNr[r], k, m)]
  BY DEF PersistThenThrow
<1>4. /\ rows' \in [Entity -> Seq(Msg)]
      /\ \A d \in Entity, n \in Nat : n <= Len(rows[d]) =>
            n <= Len(rows'[d]) /\ Prefix(rows'[d], n) = Prefix(rows[d], n)
  BY <1>1, <1>2, <1>3, WriteKeeps
<1>5. UNCHANGED <<home, state, seqNr, snapshot>>
  BY DEF PersistThenThrow, entityVars
<1>6. NoneRevived
  BY <1>1 DEF Crash, NoneRevived, IInv, TypeOK
<1>7. /\ status' \in [Runner -> RunnerStatus]
      /\ work' \in [Runner -> Seq(Frame)]
      /\ answer' \in [Msg -> Outcome]
  BY <1>1, CrashTyped DEF IInv
<1>8. TypeOK'
  BY <1>4, <1>7 DEF PersistThenThrow, IInv, TypeOK, entityVars, timerVars, stopVars
<1>9. Homed'
  BY <1>5, <1>6 DEF IInv, Homed, NoneRevived
<1>10. StateIsReplay'
  <2> SUFFICES ASSUME NEW q \in Runner, status'[q] = "live"
               PROVE  /\ seqNr[q] <= Len(rows'[home[q]])
                      /\ state[q] = Prefix(rows'[home[q]], seqNr[q])
    BY <1>5 DEF StateIsReplay
  <2>1. /\ home[q] \in Entity /\ seqNr[q] \in Nat
        /\ seqNr[q] <= Len(rows[home[q]])
        /\ state[q] = Prefix(rows[home[q]], seqNr[q])
    BY <1>6 DEF IInv, TypeOK, Homed, StateIsReplay, NoneRevived
  <2> QED BY <1>4, <2>1
<1>11. SnapshotIsReplay'
  <2> SUFFICES ASSUME NEW d \in Entity
               PROVE  /\ snapshot[d].seq <= Len(rows'[d])
                      /\ snapshot[d].state = Prefix(rows'[d], snapshot[d].seq)
    BY <1>5 DEF SnapshotIsReplay
  <2>1. /\ snapshot[d].seq \in Nat /\ snapshot[d].seq <= Len(rows[d])
        /\ snapshot[d].state = Prefix(rows[d], snapshot[d].seq)
    BY DEF IInv, TypeOK, SnapshotIsReplay
  <2> QED BY <1>4, <2>1
<1> QED BY <1>8, <1>9, <1>10, <1>11 DEF IInv

\* An explicit snapshot stores what the runner holds.
LEMMA SnapshotKeeps ==
    ASSUME IInv, NEW r \in Runner, Snapshot(r)
    PROVE  IInv'
<1> USE RuntimeAssumption
<1>1. /\ AtChainedEffect(r) /\ status[r] = "live" /\ home[r] \in Entity
  BY DEF Snapshot, AtChainedEffect, AtEffect, IInv, Homed
<1>2. /\ UNCHANGED <<home, state, seqNr, rows, status>>
      /\ snapshot' = [snapshot EXCEPT ![home[r]] = [seq   |-> seqNr[r],
                                                    state |-> state[r]]]
  BY DEF Snapshot
<1>3. work' \in [Runner -> Seq(Frame)]
  BY <1>1, ConsumedTyped DEF Snapshot, IInv, TypeOK
<1>4. since' \in [Runner -> Nat]
  BY DEF Snapshot, IInv, TypeOK
<1>5. snapshot' \in [Entity -> [seq : Nat, state : Seq(Msg)]]
  BY <1>1, <1>2 DEF IInv, TypeOK
<1>6. TypeOK'
  BY <1>3, <1>4, <1>5 DEF Snapshot, IInv, TypeOK, timerVars, askVars, stopVars
<1>7. Homed' /\ StateIsReplay'
  BY <1>2 DEF IInv, Homed, StateIsReplay
<1>8. SnapshotIsReplay'
  <2> SUFFICES ASSUME NEW d \in Entity
               PROVE  /\ snapshot'[d].seq <= Len(rows[d])
                      /\ snapshot'[d].state = Prefix(rows[d], snapshot'[d].seq)
    BY <1>2 DEF SnapshotIsReplay
  <2>1. CASE d = home[r]
    <3>1. snapshot'[d].seq = seqNr[r] /\ snapshot'[d].state = state[r]
      BY <1>1, <1>2, <2>1 DEF IInv, TypeOK
    <3> QED BY <1>1, <2>1, <3>1 DEF IInv, StateIsReplay
  <2>2. CASE d # home[r]
    <3>1. snapshot'[d] = snapshot[d]
      BY <1>2, <2>2 DEF IInv, TypeOK
    <3> QED BY <3>1 DEF IInv, SnapshotIsReplay
  <2> QED BY <2>1, <2>2
<1> QED BY <1>6, <1>7, <1>8 DEF IInv

-----------------------------------------------------------------------------
\* Every step of the runtime keeps the invariant.
LEMMA NextKeeps == IInv /\ [Next]_vars => IInv'
<1> SUFFICES ASSUME IInv, [Next]_vars PROVE IInv'
  OBVIOUS
<1>1. ASSUME NEW r \in Runner, RunnerStep(r) PROVE IInv'
  <2>1. ASSUME NEW k \in 0 .. MaxBatch,
               Persist(r, k) \/ PersistDuplicate(r, k) \/ PersistThenThrow(r, k)
        PROVE  IInv'
    <3>1. k \in Nat
      BY RuntimeAssumption
    <3> QED BY <2>1, <3>1, PersistKeeps, PersistDuplicateKeeps,
               PersistThenThrowKeeps
  <2> QED BY <1>1, <2>1, TakeKeeps, TakeStopKeeps, TerminateKeeps,
             AskReturnsKeeps, UserCodeReturnsKeeps, DecideStashKeeps, ThrowKeeps,
             RunKeeps, ReplyKeeps, ReplyDeferredKeeps, SnapshotKeeps, StopKeeps,
             StashInChainKeeps, UnstashKeeps DEF RunnerStep
<1>2. ASSUME NEW r \in Runner, ControlStep(r) PROVE IInv'
  BY <1>2, TellSelfKeeps, SyncKeeps, CtxTellKeeps, CtxAskKeeps, ScheduleKeeps,
     CancelTimerKeeps DEF ControlStep
<1>3. ASSUME Environment PROVE IInv'
  BY <1>3, TimerFiresKeeps, SyncSettlesKeeps, ClientTellKeeps, ClientAskKeeps,
     AskTimeoutKeeps, CompleteDeferredKeeps DEF Environment
<1>4. ASSUME UNCHANGED vars PROVE IInv'
  BY <1>4 DEF IInv, TypeOK, Homed, StateIsReplay, SnapshotIsReplay, vars,
              runnerVars, entityVars, timerVars, journalVars, askVars, stopVars
<1> QED BY <1>1, <1>2, <1>3, <1>4, ShutdownBeginKeeps, ShutdownEndKeeps DEF Next

\* The invariant holds in every reachable state, for any number of entities,
\* incarnations and commands, any snapshot interval and any bounds.
THEOREM Invariance == Spec => []IInv
BY InitIInv, NextKeeps, PTL DEF Spec

\* Every variable keeps its type; above all the journal of an entity stays a
\* sequence, with no number skipped and none given twice.
THEOREM TypeCorrect == Spec => []TypeOK
<1>1. IInv => TypeOK
  BY DEF IInv
<1> QED BY Invariance, <1>1, PTL

\* What a live runner holds is the replay of its journal's prefix, whatever
\* crashes, restarts, snapshots and second incarnations came before.
THEOREM StateIsReplayed == Spec => []StateIsReplay
<1>1. IInv => StateIsReplay
  BY DEF IInv
<1> QED BY Invariance, <1>1, PTL

\* A stored snapshot is the replay of the events up to its own number.
THEOREM SnapshotIsReplayed == Spec => []SnapshotIsReplay
<1>1. IInv => SnapshotIsReplay
  BY DEF IInv
<1> QED BY Invariance, <1>1, PTL
-----------------------------------------------------------------------------
\* No stored event of the old journal is changed or missing in the new one.
NothingLost ==
    \A e \in Entity :
        /\ DOMAIN rows[e] \subseteq DOMAIN rows'[e]
        /\ \A s \in DOMAIN rows[e] : rows'[e][s] = rows[e][s]

\* A batch the journal accepts takes no number that is in use.
LEMMA WriteLosesNothing ==
    ASSUME IInv, NEW r \in Runner, AtChainedEffect(r), NEW k \in Nat,
           NEW m, ~IsDuplicate(rows[home[r]], seqNr[r], k),
           rows' = [rows EXCEPT ![home[r]] = PersistRows(@, seqNr[r], k, m)]
    PROVE  NothingLost
<1>1. home[r] \in Entity /\ rows \in [Entity -> Seq(Msg)]
  BY DEF AtChainedEffect, AtEffect, IInv, Homed, TypeOK
<1> DEFINE q     == rows[home[r]]
           slots == BatchSlots(seqNr[r], k)
<1>2. rows'[home[r]] = [s \in DOMAIN q \cup slots |-> IF s \in slots THEN m ELSE q[s]]
  BY <1>1 DEF PersistRows
<1>3. slots \cap DOMAIN q = {}
  BY DEF IsDuplicate
<1> HIDE DEF slots
<1>4. ASSUME NEW e \in Entity
      PROVE  /\ DOMAIN rows[e] \subseteq DOMAIN rows'[e]
             /\ \A s \in DOMAIN rows[e] : rows'[e][s] = rows[e][s]
  <2>1. CASE e = home[r]
    BY <1>2, <1>3, <2>1
  <2>2. CASE e # home[r]
    <3>1. rows'[e] = rows[e]
      BY <1>1, <2>2
    <3> QED BY <3>1
  <2> QED BY <2>1, <2>2
<1> QED BY <1>4 DEF NothingLost

\* Only the two steps that write touch the journal at all.
LEMMA StepLosesNothing == IInv /\ [Next]_vars => NothingLost \/ UNCHANGED rows
<1> SUFFICES ASSUME IInv, [Next]_vars PROVE NothingLost \/ UNCHANGED rows
  OBVIOUS
<1>1. ASSUME NEW r \in Runner, RunnerStep(r) PROVE NothingLost \/ UNCHANGED rows
  <2>1. ASSUME NEW k \in 0 .. MaxBatch, Persist(r, k) \/ PersistThenThrow(r, k)
        PROVE  NothingLost
    <3>1. k \in Nat
      BY RuntimeAssumption
    <3>2. /\ AtChainedEffect(r)
          /\ ~IsDuplicate(rows[home[r]], seqNr[r], k)
      BY <2>1 DEF Persist, PersistThenThrow
    <3>3. rows' = [rows EXCEPT ![home[r]] =
                     PersistRows(@, seqNr[r], k, Top(r).m)]
      <4>1. CASE Persist(r, k)
        BY <4>1 DEF Persist
      <4>2. CASE PersistThenThrow(r, k)
        BY <4>2 DEF PersistThenThrow
      <4> QED BY <2>1, <4>1, <4>2
    <3> QED BY <3>1, <3>2, <3>3, WriteLosesNothing
  <2>2. ASSUME NEW k \in 0 .. MaxBatch, PersistDuplicate(r, k)
        PROVE  UNCHANGED rows
    BY <2>2 DEF PersistDuplicate, journalVars
  <2>3. Take(r) \/ TakeStop(r) \/ Terminate(r) \/ AskReturns(r)
           \/ UserCodeReturns(r) \/ DecideStash(r) \/ Throw(r)
        => UNCHANGED rows
    BY DEF Take, TakeStop, Terminate, AskReturns, UserCodeReturns, DecideStash,
           Throw, journalVars
  <2>4. Run(r) \/ Reply(r) \/ ReplyDeferred(r) \/ Snapshot(r)
           \/ Stop(r) \/ StashInChain(r) \/ Unstash(r)
        => UNCHANGED rows
    BY DEF Run, Reply, ReplyDeferred, Snapshot, Stop, StashInChain, Unstash,
           journalVars
  <2> QED BY <1>1, <2>1, <2>2, <2>3, <2>4 DEF RunnerStep
<1>2. ASSUME NEW r \in Runner, ControlStep(r) PROVE UNCHANGED rows
  BY <1>2 DEF ControlStep, TellSelf, Sync, CtxTell, CtxAsk, Schedule, CancelTimer,
              journalVars
<1>3. ASSUME Environment PROVE UNCHANGED rows
  BY <1>3 DEF Environment, TimerFires, SyncSettles, ClientTell, ClientAsk,
              AskTimeout, CompleteDeferred, journalVars
<1>4. ShutdownBegin \/ ShutdownEnd \/ UNCHANGED vars => UNCHANGED rows
  BY DEF ShutdownBegin, ShutdownEnd, vars, journalVars
<1> QED BY <1>1, <1>2, <1>3, <1>4 DEF Next

\* The journal is append-only, also for rival incarnations after a shutdown
\* whose batches carry the same numbers.
THEOREM AppendOnly == Spec => JournalAppendOnly
<1>1. IInv /\ [Next]_vars =>
        [\A e \in Entity :
            /\ DOMAIN rows[e] \subseteq DOMAIN rows'[e]
            /\ \A s \in DOMAIN rows[e] : rows'[e][s] = rows[e][s]]_rows
  BY StepLosesNothing DEF NothingLost
<1> QED BY Invariance, <1>1, PTL DEF Spec, JournalAppendOnly

-----------------------------------------------------------------------------
(* One writer per entity, and it is up to date.                             *)

\* The map names runners that have not ended, each under its own entity.
MapIsSound ==
    \A e \in Entity : entities[e] # None =>
        /\ status[entities[e]] \in {"live", "exiting"}
        /\ home[entities[e]] = e

\* The inductive invariant: that the map's runner is the only one rests on the
\* map naming no dead runner, and up to date it stays because it is alone.
WriterInv == IInv /\ MapIsSound /\ SingleIncarnation /\ NoStaleRunner

\* Nothing that tells one incarnation from another has changed, except that a
\* live runner may have left its loop.
WritersKept ==
    /\ UNCHANGED <<entities, home, seqNr, rows>>
    /\ \A r \in Runner : \/ status'[r] = status[r]
                         \/ status[r] = "live" /\ status'[r] = "exiting"
    /\ shutdown' # "down" => shutdown # "down"

\* Such a step keeps the writers.
LEMMA WritersKeptKeeps ==
    ASSUME WriterInv, WritersKept
    PROVE  MapIsSound' /\ SingleIncarnation' /\ NoStaleRunner'
<1> USE RuntimeAssumption
<1>1. MapIsSound'
  <2> SUFFICES ASSUME NEW e \in Entity, entities[e] # None
               PROVE  /\ status'[entities[e]] \in {"live", "exiting"}
                      /\ home[entities[e]] = e
    BY DEF MapIsSound, WritersKept
  <2>1. entities[e] \in Runner
    BY DEF WriterInv, IInv, TypeOK
  <2> QED BY <2>1 DEF WriterInv, MapIsSound, WritersKept
<1>2. SingleIncarnation'
  BY DEF WriterInv, SingleIncarnation, WritersKept
<1>3. NoStaleRunner'
  BY DEF WriterInv, NoStaleRunner, WritersKept
<1> QED BY <1>1, <1>2, <1>3

\* The runner that ends leaves the map, and only its own entry does.
LEMMA TerminateKeepsWriters ==
    ASSUME WriterInv, NEW r \in Runner, Terminate(r)
    PROVE  MapIsSound' /\ SingleIncarnation' /\ NoStaleRunner'
<1> USE RuntimeAssumption
<1>1. /\ entities \in [Entity -> Runner \cup {None}]
      /\ status \in [Runner -> RunnerStatus]
      /\ home[r] \in Entity
      /\ status[r] = "exiting"
  BY DEF Terminate, WriterInv, IInv, TypeOK, Homed
<1>2. /\ status' = [status EXCEPT ![r] = "terminated"]
      /\ entities' = [entities EXCEPT ![home[r]] = IF @ = r THEN None ELSE @]
      /\ UNCHANGED <<home, seqNr, rows, shutdown>>
  BY DEF Terminate, entityVars, journalVars, stopVars
<1>3. MapIsSound'
  <2> SUFFICES ASSUME NEW e \in Entity, entities'[e] # None
               PROVE  /\ status'[entities'[e]] \in {"live", "exiting"}
                      /\ home'[entities'[e]] = e
    BY DEF MapIsSound
  <2>1. entities'[e] = entities[e] /\ entities[e] # r
    BY <1>1, <1>2 DEF WriterInv, MapIsSound
  <2> QED BY <1>1, <1>2, <2>1 DEF WriterInv, MapIsSound
<1>4. SingleIncarnation'
  <2> SUFFICES ASSUME shutdown # "down", NEW q \in Runner,
                      status'[q] \in {"live", "exiting"}
               PROVE  entities'[home[q]] = q
    BY <1>2 DEF SingleIncarnation
  <2>1. q # r /\ status[q] = status'[q]
    BY <1>1, <1>2
  <2>2. entities[home[q]] = q /\ home[q] \in Entity
    BY <2>1 DEF WriterInv, IInv, Homed, SingleIncarnation
  <2> QED BY <1>1, <1>2, <2>1, <2>2
<1>5. NoStaleRunner'
  BY <1>1, <1>2 DEF WriterInv, NoStaleRunner
<1> QED BY <1>3, <1>4, <1>5

\* A message creates a runner only when the entity has none that still runs,
\* and the new runner has replayed the whole journal.
LEMMA DeliverKeepsWriters ==
    ASSUME WriterInv, NEW e \in Entity, NEW x \in Msg, NEW w, Deliver(e, x, w),
           UNCHANGED <<rows, shutdown>>
    PROVE  MapIsSound' /\ SingleIncarnation' /\ NoStaleRunner'
<1> USE RuntimeAssumption
<1>1. CASE entities[e] # None /\ status[entities[e]] # "terminated"
  <2>1. WritersKept
    BY <1>1 DEF Deliver, WritersKept, entityVars
  <2> QED BY <2>1, WritersKeptKeeps
<1>2. CASE ~(entities[e] # None /\ status[entities[e]] # "terminated")
  <2>1. entities[e] = None
    BY <1>2 DEF WriterInv, MapIsSound
  <2>2. PICK r \in Runner : Create(e, r, x, w)
    BY <1>2 DEF Deliver
  <2>3. /\ status[r] = "unborn"
        /\ entities' = [entities EXCEPT ![e] = r]
        /\ home' = [home EXCEPT ![r] = e]
    BY <2>2 DEF Create
  <2>4. /\ entities \in [Entity -> Runner \cup {None}]
        /\ status \in [Runner -> RunnerStatus]
        /\ home \in [Runner -> Entity \cup {None}]
        /\ seqNr \in [Runner -> Nat]
    BY DEF WriterInv, IInv, TypeOK
  <2>5. /\ \A q \in Runner : q # r => status'[q] = status[q] /\ seqNr'[q] = seqNr[q]
        /\ status'[r] \in {"live", "exiting"}
        /\ status'[r] = "live" => seqNr'[r] = Len(rows[e])
    <3>1. CASE /\ Recover(e, r)
               /\ status' = [status EXCEPT ![r] = "live"]
      <4>1. PICK base \in {snapshot[e], NoSnapshot} :
              seqNr' = [seqNr EXCEPT ![r] = RecoveredSeq(e, base)]
        BY <3>1 DEF Recover
      <4>2. seqNr' = [seqNr EXCEPT ![r] = Len(rows[e])]
        BY <4>1, RecoveredIsJournal DEF WriterInv
      <4> QED BY <2>4, <3>1, <4>2
    <3>2. CASE /\ status' = [status EXCEPT ![r] = "exiting"]
               /\ UNCHANGED entityVars
      BY <2>4, <3>2 DEF entityVars
    <3> QED BY <2>2, <3>1, <3>2 DEF Create
  <2>6. ASSUME NEW q \in Runner, q # r, status[q] \in {"live", "exiting"}
        PROVE  home[q] \in Entity /\ (shutdown # "down" => home[q] # e)
    <3>1. home[q] \in Entity
      BY <2>6 DEF WriterInv, IInv, Homed
    <3>2. shutdown # "down" => entities[home[q]] = q
      BY <2>6 DEF WriterInv, SingleIncarnation
    <3> QED BY <2>1, <3>1, <3>2
  <2>7. MapIsSound'
    <3> SUFFICES ASSUME NEW d \in Entity, entities'[d] # None
                 PROVE  /\ status'[entities'[d]] \in {"live", "exiting"}
                        /\ home'[entities'[d]] = d
      BY DEF MapIsSound
    <3>1. CASE d = e
      BY <2>3, <2>4, <2>5, <3>1
    <3>2. CASE d # e
      <4>1. entities'[d] = entities[d] /\ entities[d] \in Runner
        BY <2>3, <2>4, <3>2
      <4>2. status[entities[d]] \in {"live", "exiting"} /\ home[entities[d]] = d
        BY <4>1 DEF WriterInv, MapIsSound
      <4> QED BY <2>3, <2>4, <2>5, <4>1, <4>2
    <3> QED BY <3>1, <3>2
  <2>8. SingleIncarnation'
    <3> SUFFICES ASSUME shutdown # "down", NEW q \in Runner,
                        status'[q] \in {"live", "exiting"}
                 PROVE  entities'[home'[q]] = q
      BY DEF SingleIncarnation
    <3>1. CASE q = r
      BY <2>3, <2>4, <3>1
    <3>2. CASE q # r
      <4>1. status[q] \in {"live", "exiting"} /\ home'[q] = home[q]
        BY <2>3, <2>4, <2>5, <3>2
      <4>2. home[q] \in Entity /\ home[q] # e
        BY <2>6, <3>2, <4>1
      <4>3. entities[home[q]] = q
        BY <4>1 DEF WriterInv, SingleIncarnation
      <4> QED BY <2>3, <2>4, <4>1, <4>2, <4>3
    <3> QED BY <3>1, <3>2
  <2>9. NoStaleRunner'
    <3> SUFFICES ASSUME shutdown # "down", NEW q \in Runner, status'[q] = "live"
                 PROVE  seqNr'[q] = Len(rows[home'[q]])
      BY DEF NoStaleRunner
    <3>1. CASE q = r
      BY <2>3, <2>4, <2>5, <3>1
    <3>2. CASE q # r
      <4>1. status[q] = "live" /\ home'[q] = home[q] /\ seqNr'[q] = seqNr[q]
        BY <2>3, <2>4, <2>5, <3>2
      <4> QED BY <4>1 DEF WriterInv, NoStaleRunner
    <3> QED BY <3>1, <3>2
  <2> QED BY <2>7, <2>8, <2>9
<1> QED BY <1>1, <1>2

\* The events a step wrote for r's entity: k of them, and the journals of the
\* other entities are as they were.
Wrote(r, k) ==
    /\ Len(rows'[home[r]]) = Len(rows[home[r]]) + k
    /\ \A e \in Entity : e # home[r] => rows'[e] = rows[e]

\* A batch the journal takes makes it longer by the batch.
LEMMA BatchIsWritten ==
    ASSUME IInv, NEW r \in Runner, NEW k \in Nat,
           Persist(r, k) \/ PersistThenThrow(r, k)
    PROVE  status[r] = "live" /\ home[r] \in Entity /\ Wrote(r, k)
<1>1. /\ AtChainedEffect(r) /\ status[r] = "live" /\ work[r] # << >>
      /\ Top(r).phase = "effect"
  BY DEF Persist, PersistThenThrow, AtChainedEffect, AtEffect
<1>2. Top(r).m \in Msg
  BY <1>1, TopTyped DEF IInv
<1>3. /\ ~IsDuplicate(rows[home[r]], seqNr[r], k)
      /\ rows' = [rows EXCEPT ![home[r]] = PersistRows(@, seqNr[r], k, Top(r).m)]
  <2>1. CASE Persist(r, k)
    BY <2>1 DEF Persist
  <2>2. CASE PersistThenThrow(r, k)
    BY <2>2 DEF PersistThenThrow
  <2> QED BY <2>1, <2>2
<1> DEFINE evs == Events(Top(r).m, k)
<1>4. /\ home[r] \in Entity
      /\ rows' = [rows EXCEPT ![home[r]] = @ \o evs]
      /\ evs \in Seq(Msg) /\ Len(evs) = k
  BY <1>1, <1>2, <1>3, WriteKeeps
<1> HIDE DEF evs
<1>5. rows \in [Entity -> Seq(Msg)]
  BY DEF IInv, TypeOK
<1>6. rows'[home[r]] = rows[home[r]] \o evs /\ rows[home[r]] \in Seq(Msg)
  BY <1>4, <1>5
<1>7. Len(rows[home[r]] \o evs) = Len(rows[home[r]]) + Len(evs)
  BY <1>4, <1>6, ConcatProperties
<1> QED BY <1>1, <1>4, <1>5, <1>6, <1>7 DEF Wrote

\* A write moves the writer with the journal, or the writer is on its way out.
LEMMA WriteKeepsWriters ==
    ASSUME WriterInv, NEW r \in Runner, NEW k \in Nat,
           Persist(r, k) \/ PersistThenThrow(r, k)
    PROVE  MapIsSound' /\ SingleIncarnation' /\ NoStaleRunner'
<1> USE RuntimeAssumption
<1>1. status[r] = "live" /\ home[r] \in Entity /\ Wrote(r, k)
  BY BatchIsWritten DEF WriterInv
<1>2. /\ status \in [Runner -> RunnerStatus]
      /\ seqNr \in [Runner -> Nat]
      /\ entities \in [Entity -> Runner \cup {None}]
  BY DEF WriterInv, IInv, TypeOK
<1>3. /\ UNCHANGED <<entities, home, shutdown>>
      /\ \A q \in Runner : q # r => status'[q] = status[q] /\ seqNr'[q] = seqNr[q]
      /\ \/ status'[r] = "live" /\ seqNr'[r] = seqNr[r] + k
         \/ status'[r] = "exiting"
  <2>1. CASE Persist(r, k)
    BY <1>1, <1>2, <2>1 DEF Persist, stopVars
  <2>2. CASE PersistThenThrow(r, k)
    BY <1>1, <1>2, <2>2 DEF PersistThenThrow, Crash, stopVars, entityVars
  <2> QED BY <2>1, <2>2
<1>4. MapIsSound'
  <2> SUFFICES ASSUME NEW e \in Entity, entities[e] # None
               PROVE  /\ status'[entities[e]] \in {"live", "exiting"}
                      /\ home[entities[e]] = e
    BY <1>3 DEF MapIsSound
  <2>1. entities[e] \in Runner
    BY <1>2
  <2> QED BY <1>3, <2>1 DEF WriterInv, MapIsSound
<1>5. SingleIncarnation'
  <2> SUFFICES ASSUME shutdown # "down", NEW q \in Runner,
                      status'[q] \in {"live", "exiting"}
               PROVE  entities[home[q]] = q
    BY <1>3 DEF SingleIncarnation
  <2>1. status[q] \in {"live", "exiting"}
    BY <1>1, <1>3
  <2> QED BY <2>1 DEF WriterInv, SingleIncarnation
<1>6. NoStaleRunner'
  <2> SUFFICES ASSUME shutdown # "down", NEW q \in Runner, status'[q] = "live"
               PROVE  seqNr'[q] = Len(rows'[home[q]])
    BY <1>3 DEF NoStaleRunner
  <2>1. CASE q = r
    <3>1. seqNr'[r] = seqNr[r] + k
      BY <1>3, <2>1
    <3>2. seqNr[r] = Len(rows[home[r]])
      BY <1>1 DEF WriterInv, NoStaleRunner
    <3> QED BY <1>1, <2>1, <3>1, <3>2 DEF Wrote
  <2>2. CASE q # r
    <3>1. status[q] = "live" /\ seqNr'[q] = seqNr[q]
      BY <1>3, <2>2
    <3>2. entities[home[q]] = q /\ entities[home[r]] = r /\ home[q] \in Entity
      BY <1>1, <3>1 DEF WriterInv, IInv, Homed, SingleIncarnation
    <3>3. rows'[home[q]] = rows[home[q]]
      BY <1>1, <2>2, <3>2 DEF Wrote
    <3> QED BY <3>1, <3>3 DEF WriterInv, NoStaleRunner
  <2> QED BY <2>1, <2>2
<1> QED BY <1>4, <1>5, <1>6

\* Every step keeps at most one writer, and keeps it up to date.
LEMMA NextKeepsWriters == WriterInv /\ [Next]_vars => WriterInv'
<1> SUFFICES ASSUME WriterInv, [Next]_vars
             PROVE  MapIsSound' /\ SingleIncarnation' /\ NoStaleRunner'
  BY NextKeeps DEF WriterInv
<1> USE RuntimeAssumption
<1> DEFINE Kept == MapIsSound' /\ SingleIncarnation' /\ NoStaleRunner'
<1>0. status \in [Runner -> RunnerStatus]
  BY DEF WriterInv, IInv, TypeOK
<1>a. WritersKept => Kept
  BY WritersKeptKeeps
<1> HIDE DEF Kept
<1>1. ASSUME NEW r \in Runner, RunnerStep(r) PROVE Kept
  <2>1. ASSUME NEW k \in 0 .. MaxBatch, Persist(r, k) \/ PersistThenThrow(r, k)
        PROVE  Kept
    <3>1. k \in Nat
      OBVIOUS
    <3> QED BY <2>1, <3>1, WriteKeepsWriters DEF Kept
  <2>2. ASSUME NEW k \in 0 .. MaxBatch, PersistDuplicate(r, k)
        PROVE  WritersKept
    BY <1>0, <2>2 DEF PersistDuplicate, Crash, AtChainedEffect, AtEffect,
                      WritersKept, entityVars, journalVars, stopVars
  <2>3. Throw(r) \/ TakeStop(r) => WritersKept
    BY <1>0 DEF Throw, TakeStop, Idle, Crash, InUserCode, AtChainedEffect, AtEffect,
                WritersKept, entityVars, journalVars, stopVars
  <2>4. Take(r) \/ AskReturns(r) \/ UserCodeReturns(r) \/ DecideStash(r)
        => WritersKept
    BY DEF Take, AskReturns, UserCodeReturns, DecideStash, WritersKept, entityVars,
           journalVars, stopVars
  <2>5. Run(r) \/ Reply(r) \/ ReplyDeferred(r) \/ Snapshot(r)
           \/ Stop(r) \/ StashInChain(r) \/ Unstash(r)
        => WritersKept
    BY DEF Run, Reply, ReplyDeferred, Snapshot, Stop, StashInChain, Unstash,
           WritersKept, entityVars, journalVars, stopVars
  <2>6. Terminate(r) => Kept
    BY TerminateKeepsWriters DEF Kept
  <2> QED BY <1>a, <1>1, <2>1, <2>2, <2>3, <2>4, <2>5, <2>6 DEF RunnerStep
<1>2. ASSUME NEW r \in Runner, ControlStep(r) PROVE Kept
  <2>1. ASSUME NEW e \in Entity, NEW m \in Msg, CtxTell(r, e, m) PROVE Kept
    BY <2>1, DeliverKeepsWriters DEF CtxTell, Kept, journalVars, stopVars
  <2>2. ASSUME NEW e \in Entity, NEW m \in Msg, CtxAsk(r, e, m) PROVE Kept
    BY <2>2, DeliverKeepsWriters DEF CtxAsk, Kept, journalVars, stopVars
  <2>3. ASSUME NEW m \in Msg, TellSelf(r, m) \/ Sync(r, m) PROVE WritersKept
    BY <2>3 DEF TellSelf, Sync, WritersKept, runnerVars, entityVars, journalVars,
                stopVars
  <2>4. ASSUME NEW t \in TimerId, CancelTimer(r, t) PROVE WritersKept
    BY <2>4 DEF CancelTimer, WritersKept, runnerVars, entityVars, journalVars,
                stopVars
  <2>5. ASSUME NEW t \in TimerId, NEW m \in Msg, NEW p \in BOOLEAN,
               Schedule(r, t, m, p)
        PROVE  WritersKept
    BY <2>5 DEF Schedule, WritersKept, runnerVars, entityVars, journalVars, stopVars
  <2> QED BY <1>a, <1>2, <2>1, <2>2, <2>3, <2>4, <2>5 DEF ControlStep
<1>3. ASSUME Environment PROVE Kept
  <2>1. ASSUME NEW e \in Entity, NEW m \in Msg, ClientTell(e, m) \/ ClientAsk(e, m)
        PROVE  Kept
    BY <2>1, DeliverKeepsWriters DEF ClientTell, ClientAsk, Kept, journalVars,
                                     stopVars
  <2>2. ASSUME NEW m \in Msg, AskTimeout(m) \/ CompleteDeferred(m)
        PROVE  WritersKept
    BY <2>2 DEF AskTimeout, CompleteDeferred, WritersKept, runnerVars, entityVars,
                journalVars, stopVars
  <2>3. ASSUME NEW r \in Runner, NEW t \in TimerId, TimerFires(r, t)
        PROVE  WritersKept
    BY <2>3 DEF TimerFires, WritersKept, entityVars, journalVars, stopVars
  <2>4. ASSUME NEW r \in Runner, NEW m \in Msg, SyncSettles(r, m)
        PROVE  WritersKept
    BY <2>4 DEF SyncSettles, WritersKept, entityVars, journalVars, stopVars
  <2> QED BY <1>a, <1>3, <2>1, <2>2, <2>3, <2>4 DEF Environment
<1>4. ShutdownBegin \/ UNCHANGED vars => WritersKept
  BY DEF ShutdownBegin, vars, WritersKept, runnerVars, entityVars, journalVars,
         stopVars
<1>5. ShutdownEnd => Kept
  BY DEF ShutdownEnd, Kept, MapIsSound, SingleIncarnation, NoStaleRunner
<1> QED BY <1>a, <1>1, <1>2, <1>3, <1>4, <1>5 DEF Next, Kept

\* Until shutdown() has cleared the map an entity has at most one incarnation
\* that has not ended, and while it lives it has seen the whole journal, for any
\* number of entities, incarnations and commands, whoever delivers, crashes or
\* shuts down in the meantime.
THEOREM WriterIsOneAndCurrent == Spec => []OneCurrentRunner
<1>1. Init => WriterInv
  BY InitIInv DEF Init, WriterInv, MapIsSound, SingleIncarnation, NoStaleRunner
<1>2. WriterInv => OneCurrentRunner
  BY DEF WriterInv, OneCurrentRunner
<1> QED BY <1>1, <1>2, NextKeepsWriters, PTL DEF Spec

-----------------------------------------------------------------------------
(* Mailboxes of the dead.                                                   *)

Settled(m) == answer[m] \notin {"unsent", "pending"}

\* What a timer or a sync effect will say is a tell.
Told ==
    /\ \A r \in Runner, t \in TimerId :
          timers[r][t] # None => answer[timers[r][t].m] = "tell"
    /\ \A p \in syncs : answer[p[2]] = "tell"

\* A command in the mailbox of a runner that has ended is not waited for, and
\* never will be: a command nobody has sent yet could still become an ask.
DeadSettled ==
    \A r \in Runner : status[r] = "terminated" =>
        \A i \in DOMAIN mailbox[r] : mailbox[r][i] # StopMsg => Settled(mailbox[r][i])

\* The inductive invariant.
DeadInv == IInv /\ Told /\ DeadSettled

\* What a sender knows is settled once.
AnswersAdvance == \A m \in Msg : Settled(m) => answer'[m] = answer[m]

\* Timers and syncs are told commands, old or new.
TellersStep ==
    /\ \A r \in Runner, t \in TimerId :
          \/ timers'[r][t] \in {timers[r][t], None}
          \/ answer'[timers'[r][t].m] = "tell"
    /\ \A p \in syncs' : p \in syncs \/ answer'[p[2]] = "tell"

\* A runner ends with an empty mailbox, and only a told command or Stop is
\* offered to it afterwards.
DeadStep ==
    \A r \in Runner : status'[r] = "terminated" =>
        \/ mailbox'[r] = << >>
        \/ /\ status[r] = "terminated"
           /\ \/ mailbox'[r] = mailbox[r]
              \/ \E x \in Msg \cup {StopMsg} :
                    /\ mailbox'[r] = Append(mailbox[r], x)
                    /\ x # StopMsg => answer[x] = "tell"

\* Steps of this kind keep the mailboxes of the dead free of asks.
LEMMA DeadStepKeeps ==
    ASSUME DeadInv, IInv', AnswersAdvance, TellersStep, DeadStep
    PROVE  Told' /\ DeadSettled'
<1> USE RuntimeAssumption
<1>1. Told'
  <2>1. ASSUME NEW r \in Runner, NEW t \in TimerId, timers'[r][t] # None
        PROVE  answer'[timers'[r][t].m] = "tell"
    <3>1. timers[r][t] # None => timers[r][t].m \in Msg
      BY DEF DeadInv, IInv, TypeOK, Timer
    <3>2. timers[r][t] # None => answer[timers[r][t].m] = "tell"
      BY DEF DeadInv, Told
    <3>3. timers[r][t] # None => answer'[timers[r][t].m] = "tell"
      BY <3>1, <3>2 DEF AnswersAdvance, Settled
    <3> QED BY <2>1, <3>3 DEF TellersStep
  <2>2. ASSUME NEW p \in syncs' PROVE answer'[p[2]] = "tell"
    <3>1. CASE p \in syncs
      <4>1. p[2] \in Msg /\ answer[p[2]] = "tell"
        BY <3>1 DEF DeadInv, IInv, TypeOK, Told
      <4> QED BY <4>1 DEF AnswersAdvance, Settled
    <3> QED BY <3>1 DEF TellersStep
  <2> QED BY <2>1, <2>2 DEF Told
<1>2. DeadSettled'
  <2> SUFFICES ASSUME NEW r \in Runner, status'[r] = "terminated",
                      NEW i \in DOMAIN mailbox'[r], mailbox'[r][i] # StopMsg
               PROVE  answer'[mailbox'[r][i]] \notin {"unsent", "pending"}
    BY DEF DeadSettled, Settled
  <2>1. mailbox'[r] # << >>
    OBVIOUS
  <2>2. status[r] = "terminated" /\ mailbox[r] \in Seq(Msg \cup {StopMsg})
    BY <2>1 DEF DeadStep, DeadInv, IInv, TypeOK
  <2>3. ASSUME NEW j \in DOMAIN mailbox[r], mailbox[r][j] # StopMsg
        PROVE  answer'[mailbox[r][j]] \notin {"unsent", "pending"}
    <3>1. mailbox[r][j] \in Msg /\ Settled(mailbox[r][j])
      BY <2>2, <2>3 DEF DeadInv, DeadSettled
    <3> QED BY <3>1 DEF AnswersAdvance, Settled
  <2>4. CASE mailbox'[r] = mailbox[r]
    BY <2>3, <2>4
  <2>5. ASSUME NEW x \in Msg \cup {StopMsg},
               mailbox'[r] = Append(mailbox[r], x),
               x # StopMsg => answer[x] = "tell"
        PROVE  answer'[mailbox'[r][i]] \notin {"unsent", "pending"}
    <3>1. \/ i \in DOMAIN mailbox[r] /\ mailbox'[r][i] = mailbox[r][i]
          \/ mailbox'[r][i] = x
      BY <2>2, <2>5
    <3>2. x # StopMsg => answer'[x] = "tell"
      BY <2>5 DEF AnswersAdvance, Settled
    <3> QED BY <2>3, <3>1, <3>2
  <2> QED BY <2>1, <2>4, <2>5 DEF DeadStep
<1> QED BY <1>1, <1>2

\* Sending, settling and failing touch only what is not settled.
LEMMA NextAdvancesAnswers ==
    ASSUME IInv, [Next]_vars
    PROVE  AnswersAdvance
<1> USE RuntimeAssumption
<1>1. answer \in [Msg -> Outcome]
  BY DEF IInv, TypeOK
<1>2. UNCHANGED answer => AnswersAdvance
  BY DEF AnswersAdvance
<1>3. ASSUME NEW m \in Msg, SentTell(m) \/ SentAsk(m) PROVE AnswersAdvance
  BY <1>1, <1>3 DEF SentTell, SentAsk, IsFresh, AnswersAdvance, Settled
<1>4. ASSUME NEW m, NEW out, answer' = Settle(m, out) PROVE AnswersAdvance
  BY <1>1, <1>4 DEF Settle, AnswersAdvance, Settled
<1>5. ASSUME NEW r \in Runner, Crash(r) PROVE AnswersAdvance
  <2>1. answer' = answer \/ answer' = Settle(Bottom(r).m, "failed")
    BY <1>5 DEF Crash
  <2> QED BY <1>2, <1>4, <2>1
<1>6. ASSUME NEW r \in Runner, RunnerStep(r) PROVE AnswersAdvance
  <2>1. ASSUME NEW k \in 0 .. MaxBatch,
               Persist(r, k) \/ PersistDuplicate(r, k) \/ PersistThenThrow(r, k)
        PROVE  UNCHANGED answer \/ Crash(r)
    BY <2>1 DEF Persist, PersistDuplicate, PersistThenThrow, askVars
  <2>2. Take(r) \/ TakeStop(r) \/ AskReturns(r) \/ UserCodeReturns(r) \/ DecideStash(r)
        => UNCHANGED answer
    BY DEF Take, TakeStop, AskReturns, UserCodeReturns, DecideStash, askVars
  <2>3. Throw(r) => Crash(r)
    BY DEF Throw
  <2>4. Run(r) \/ ReplyDeferred(r) \/ Snapshot(r) \/ Stop(r) \/ StashInChain(r)
           \/ Unstash(r)
        => UNCHANGED answer
    BY DEF Run, ReplyDeferred, Snapshot, Stop, StashInChain, Unstash, askVars
  <2>5. Reply(r) => AnswersAdvance
    BY <1>4 DEF Reply
  <2>6. Terminate(r) => AnswersAdvance
    BY <1>1 DEF Terminate, AnswersAdvance, Settled
  <2> QED BY <1>2, <1>5, <1>6, <2>1, <2>2, <2>3, <2>4, <2>5, <2>6 DEF RunnerStep
<1>7. ASSUME NEW r \in Runner, ControlStep(r) PROVE AnswersAdvance
  <2>1. ASSUME NEW t \in TimerId, CancelTimer(r, t) PROVE UNCHANGED answer
    BY <2>1 DEF CancelTimer, askVars
  <2>2. ASSUME NEW m \in Msg, TellSelf(r, m) \/ Sync(r, m) PROVE SentTell(m)
    BY <2>2 DEF TellSelf, Sync
  <2>3. ASSUME NEW m \in Msg, NEW e \in Entity, CtxTell(r, e, m) \/ CtxAsk(r, e, m)
        PROVE  SentTell(m) \/ SentAsk(m)
    BY <2>3 DEF CtxTell, CtxAsk
  <2>4. ASSUME NEW t \in TimerId, NEW m \in Msg, NEW p \in BOOLEAN,
               Schedule(r, t, m, p)
        PROVE  SentTell(m)
    BY <2>4 DEF Schedule
  <2> QED BY <1>2, <1>3, <1>7, <2>1, <2>2, <2>3, <2>4 DEF ControlStep
<1>8. ASSUME Environment PROVE AnswersAdvance
  <2>1. ASSUME NEW e \in Entity, NEW m \in Msg, ClientTell(e, m) \/ ClientAsk(e, m)
        PROVE  SentTell(m) \/ SentAsk(m)
    BY <2>1 DEF ClientTell, ClientAsk
  <2>2. ASSUME NEW m \in Msg, AskTimeout(m) PROVE AnswersAdvance
    BY <1>1, <2>2 DEF AskTimeout, AnswersAdvance, Settled
  <2>3. ASSUME NEW m \in Msg, CompleteDeferred(m) PROVE AnswersAdvance
    BY <1>4, <2>3 DEF CompleteDeferred
  <2>4. ASSUME NEW r \in Runner, NEW t \in TimerId, TimerFires(r, t)
        PROVE  UNCHANGED answer
    BY <2>4 DEF TimerFires, askVars
  <2>5. ASSUME NEW r \in Runner, NEW m \in Msg, SyncSettles(r, m)
        PROVE  UNCHANGED answer
    BY <2>5 DEF SyncSettles, askVars
  <2> QED BY <1>2, <1>3, <1>8, <2>1, <2>2, <2>3, <2>4, <2>5 DEF Environment
<1>9. ShutdownBegin \/ ShutdownEnd \/ UNCHANGED vars => UNCHANGED answer
  BY DEF ShutdownBegin, ShutdownEnd, vars, askVars
<1> QED BY <1>2, <1>6, <1>7, <1>8, <1>9 DEF Next

\* Only user code starts timers and syncs, each with a fresh tell.
LEMMA NextKeepsTellers ==
    ASSUME IInv, [Next]_vars
    PROVE  TellersStep
<1> USE RuntimeAssumption
<1>1. /\ answer \in [Msg -> Outcome]
      /\ timers \in [Runner -> [TimerId -> Timer \cup {None}]]
  BY DEF IInv, TypeOK
<1>2. UNCHANGED timerVars => TellersStep
  BY DEF TellersStep, timerVars
<1>3. ASSUME NEW r \in Runner, RunnerStep(r) PROVE TellersStep
  <2>1. ASSUME NEW k \in 0 .. MaxBatch,
               Persist(r, k) \/ PersistDuplicate(r, k) \/ PersistThenThrow(r, k)
        PROVE  UNCHANGED timerVars
    BY <2>1 DEF Persist, PersistDuplicate, PersistThenThrow
  <2>2. Take(r) \/ TakeStop(r) \/ AskReturns(r) \/ UserCodeReturns(r)
           \/ DecideStash(r) \/ Throw(r)
        => UNCHANGED timerVars
    BY DEF Take, TakeStop, AskReturns, UserCodeReturns, DecideStash, Throw
  <2>3. Run(r) \/ Reply(r) \/ ReplyDeferred(r) \/ Snapshot(r) \/ Stop(r)
           \/ StashInChain(r) \/ Unstash(r)
        => UNCHANGED timerVars
    BY DEF Run, Reply, ReplyDeferred, Snapshot, Stop, StashInChain, Unstash
  <2>4. Terminate(r) => TellersStep
    BY <1>1 DEF Terminate, TellersStep
  <2> QED BY <1>2, <1>3, <2>1, <2>2, <2>3, <2>4 DEF RunnerStep
<1>4. ASSUME NEW r \in Runner, ControlStep(r) PROVE TellersStep
  <2>1. ASSUME NEW t \in TimerId, CancelTimer(r, t) PROVE TellersStep
    BY <1>1, <2>1 DEF CancelTimer, TellersStep
  <2>2. ASSUME NEW m \in Msg, TellSelf(r, m) PROVE UNCHANGED timerVars
    BY <2>2 DEF TellSelf
  <2>3. ASSUME NEW m \in Msg, NEW e \in Entity, CtxTell(r, e, m) \/ CtxAsk(r, e, m)
        PROVE  UNCHANGED timerVars
    BY <2>3 DEF CtxTell, CtxAsk
  <2>4. ASSUME NEW t \in TimerId, NEW m \in Msg, NEW p \in BOOLEAN,
               Schedule(r, t, m, p)
        PROVE  TellersStep
    <3>1. answer'[m] = "tell" /\ syncs' = syncs
      BY <1>1, <2>4 DEF Schedule, SentTell
    <3>2. timers' = [timers EXCEPT ![r][t] = [m |-> m, periodic |-> p]]
      BY <2>4 DEF Schedule
    <3>3. ASSUME NEW q \in Runner, NEW u \in TimerId
          PROVE  \/ timers'[q][u] \in {timers[q][u], None}
                 \/ answer'[timers'[q][u].m] = "tell"
      <4>1. CASE q = r /\ u = t
        <5>1. timers'[q][u] = [m |-> m, periodic |-> p]
          BY <1>1, <3>2, <4>1
        <5> QED BY <3>1, <5>1
      <4>2. CASE ~(q = r /\ u = t)
        BY <1>1, <3>2, <4>2
      <4> QED BY <4>1, <4>2
    <3> QED BY <3>1, <3>3 DEF TellersStep
  <2>5. ASSUME NEW m \in Msg, Sync(r, m) PROVE TellersStep
    <3>1. answer'[m] = "tell" /\ timers' = timers /\ syncs' = syncs \cup {<<r, m>>}
      BY <1>1, <2>5 DEF Sync, SentTell
    <3> QED BY <3>1 DEF TellersStep
  <2> QED BY <1>2, <1>4, <2>1, <2>2, <2>3, <2>4, <2>5 DEF ControlStep
<1>5. ASSUME Environment PROVE TellersStep
  <2>1. ASSUME NEW e \in Entity, NEW m \in Msg, ClientTell(e, m) \/ ClientAsk(e, m)
        PROVE  UNCHANGED timerVars
    BY <2>1 DEF ClientTell, ClientAsk
  <2>2. ASSUME NEW m \in Msg, AskTimeout(m) \/ CompleteDeferred(m)
        PROVE  UNCHANGED timerVars
    BY <2>2 DEF AskTimeout, CompleteDeferred
  <2>3. ASSUME NEW r \in Runner, NEW t \in TimerId, TimerFires(r, t)
        PROVE  TellersStep
    BY <1>1, <2>3 DEF TimerFires, TellersStep
  <2>4. ASSUME NEW r \in Runner, NEW m \in Msg, SyncSettles(r, m)
        PROVE  TellersStep
    BY <2>4 DEF SyncSettles, TellersStep
  <2> QED BY <1>2, <1>5, <2>1, <2>2, <2>3, <2>4 DEF Environment
<1>6. ShutdownBegin \/ ShutdownEnd \/ UNCHANGED vars => UNCHANGED timerVars
  BY DEF ShutdownBegin, ShutdownEnd, vars
<1> QED BY <1>2, <1>3, <1>4, <1>5, <1>6 DEF Next

\* A delivery goes to a runner that has not ended.
LEMMA DeliverSparesTheDead ==
    ASSUME IInv, NEW e \in Entity, NEW x, NEW w, Deliver(e, x, w)
    PROVE  DeadStep
<1> USE RuntimeAssumption
<1>1. /\ status \in [Runner -> RunnerStatus]
      /\ mailbox \in [Runner -> Seq(Msg \cup {StopMsg})]
  BY DEF IInv, TypeOK
<1>2. CASE entities[e] # None /\ status[entities[e]] # "terminated"
  <2>1. /\ status' = status
        /\ mailbox' = [mailbox EXCEPT ![entities[e]] = Append(@, x)]
    BY <1>2 DEF Deliver
  <2> QED BY <1>1, <1>2, <2>1 DEF DeadStep
<1>3. CASE ~(entities[e] # None /\ status[entities[e]] # "terminated")
  <2>1. PICK r \in Runner : Create(e, r, x, w)
    BY <1>3 DEF Deliver
  <2>2. /\ mailbox' = [mailbox EXCEPT ![r] = <<x>>]
        /\ \E s \in {"live", "exiting"} : status' = [status EXCEPT ![r] = s]
    BY <2>1 DEF Create
  <2> QED BY <1>1, <2>2 DEF DeadStep
<1> QED BY <1>2, <1>3

\* What is offered to a dead runner comes from a timer, a sync or shutdown().
LEMMA NextSparesTheDead ==
    ASSUME DeadInv, [Next]_vars
    PROVE  DeadStep
<1> USE RuntimeAssumption
<1>1. /\ status \in [Runner -> RunnerStatus]
      /\ mailbox \in [Runner -> Seq(Msg \cup {StopMsg})]
  BY DEF DeadInv, IInv, TypeOK
<1> DEFINE Kept(r) == /\ \A q \in Runner : q # r => mailbox'[q] = mailbox[q]
                                                 /\ status'[q] = status[q]
                      /\ status'[r] # "terminated"
<1>2. ASSUME NEW r \in Runner, Kept(r) PROVE DeadStep
  BY <1>2 DEF DeadStep
<1>3. UNCHANGED <<mailbox, status>> => DeadStep
  BY DEF DeadStep
<1> HIDE DEF Kept
<1>4. ASSUME NEW r \in Runner, RunnerStep(r) PROVE DeadStep
  <2>1. ASSUME NEW k \in 0 .. MaxBatch,
               Persist(r, k) \/ PersistDuplicate(r, k) \/ PersistThenThrow(r, k)
        PROVE  UNCHANGED <<mailbox, status>> \/ Kept(r)
    BY <1>1, <2>1 DEF Persist, PersistDuplicate, PersistThenThrow, Crash, Kept
  <2>2. Take(r) \/ TakeStop(r) => Kept(r)
    BY <1>1 DEF Take, TakeStop, Idle, Kept
  <2>3. AskReturns(r) \/ UserCodeReturns(r) \/ DecideStash(r)
        => UNCHANGED <<mailbox, status>>
    BY DEF AskReturns, UserCodeReturns, DecideStash
  <2>4. Throw(r) => Kept(r)
    BY <1>1 DEF Throw, Crash, Kept
  <2>5. Run(r) \/ Reply(r) \/ ReplyDeferred(r) \/ Snapshot(r)
           \/ StashInChain(r) \/ Unstash(r)
        => UNCHANGED <<mailbox, status>>
    BY DEF Run, Reply, ReplyDeferred, Snapshot, StashInChain, Unstash
  <2>6. Stop(r) => Kept(r)
    BY <1>1 DEF Stop, AtEffect, Kept
  <2>7. Terminate(r) => DeadStep
    BY <1>1 DEF Terminate, DeadStep
  <2> QED BY <1>2, <1>3, <1>4, <2>1, <2>2, <2>3, <2>4, <2>5, <2>6, <2>7
          DEF RunnerStep
<1>5. ASSUME NEW r \in Runner, ControlStep(r) PROVE DeadStep
  <2>1. ASSUME NEW t \in TimerId, CancelTimer(r, t)
        PROVE  UNCHANGED <<mailbox, status>>
    BY <2>1 DEF CancelTimer, runnerVars
  <2>2. ASSUME NEW m \in Msg, TellSelf(r, m) PROVE Kept(r)
    BY <1>1, <2>2 DEF TellSelf, InUserCode, Kept
  <2>3. ASSUME NEW m \in Msg, Sync(r, m) PROVE UNCHANGED <<mailbox, status>>
    BY <2>3 DEF Sync, runnerVars
  <2>4. ASSUME NEW m \in Msg, NEW e \in Entity, CtxTell(r, e, m) \/ CtxAsk(r, e, m)
        PROVE  DeadStep
    BY <2>4, DeliverSparesTheDead DEF CtxTell, CtxAsk, DeadInv
  <2>5. ASSUME NEW t \in TimerId, NEW m \in Msg, NEW p \in BOOLEAN,
               Schedule(r, t, m, p)
        PROVE  UNCHANGED <<mailbox, status>>
    BY <2>5 DEF Schedule, runnerVars
  <2> QED BY <1>2, <1>3, <1>5, <2>1, <2>2, <2>3, <2>4, <2>5 DEF ControlStep
<1>6. ASSUME Environment PROVE DeadStep
  <2>1. ASSUME NEW e \in Entity, NEW m \in Msg, ClientTell(e, m) \/ ClientAsk(e, m)
        PROVE  DeadStep
    BY <2>1, DeliverSparesTheDead DEF ClientTell, ClientAsk, DeadInv
  <2>2. ASSUME NEW m \in Msg, AskTimeout(m) \/ CompleteDeferred(m)
        PROVE  UNCHANGED <<mailbox, status>>
    BY <2>2 DEF AskTimeout, CompleteDeferred, runnerVars
  <2>3. ASSUME NEW r \in Runner, NEW x \in Msg \cup {StopMsg},
               mailbox' = [mailbox EXCEPT ![r] = Append(@, x)], status' = status,
               x # StopMsg => answer[x] = "tell"
        PROVE  DeadStep
    BY <1>1, <2>3 DEF DeadStep
  <2>4. ASSUME NEW r \in Runner, NEW t \in TimerId, TimerFires(r, t)
        PROVE  DeadStep
    <3>1. timers[r][t] # None /\ timers[r][t].m \in Msg
      BY <2>4 DEF TimerFires, DeadInv, IInv, TypeOK, Timer
    <3>2. answer[timers[r][t].m] = "tell"
      BY <3>1 DEF DeadInv, Told
    <3> QED BY <2>3, <2>4, <3>1, <3>2 DEF TimerFires
  <2>5. ASSUME NEW r \in Runner, NEW m \in Msg, SyncSettles(r, m)
        PROVE  DeadStep
    <3>1. answer[m] = "tell"
      BY <2>5 DEF SyncSettles, DeadInv, Told
    <3> QED BY <2>3, <2>5, <3>1 DEF SyncSettles
  <2> QED BY <1>3, <1>6, <2>1, <2>2, <2>4, <2>5 DEF Environment
<1>7. ShutdownBegin => DeadStep
  <2> SUFFICES ASSUME ShutdownBegin, NEW r \in Runner, status'[r] = "terminated"
               PROVE  /\ status[r] = "terminated"
                      /\ \/ mailbox'[r] = mailbox[r]
                         \/ mailbox'[r] = Append(mailbox[r], StopMsg)
    BY DEF DeadStep
  <2> QED BY DEF ShutdownBegin
<1>8. ShutdownEnd \/ UNCHANGED vars => UNCHANGED <<mailbox, status>>
  BY DEF ShutdownEnd, vars, runnerVars
<1> QED BY <1>3, <1>4, <1>5, <1>6, <1>7, <1>8 DEF Next

\* No ask waits in the mailbox of a runner that has ended, and none ever gets
\* there, however late timers, sync effects and shutdown() speak to it.
THEOREM DeadMailboxesHoldNoAsk == Spec => []NoAskInDeadMailbox
<1>1. Init => DeadInv
  <2> SUFFICES ASSUME Init PROVE Told /\ DeadSettled
    BY InitIInv DEF DeadInv
  <2> QED BY DEF Init, Told, DeadSettled
<1>2. DeadInv /\ [Next]_vars => DeadInv'
  <2> SUFFICES ASSUME DeadInv, [Next]_vars PROVE DeadInv'
    OBVIOUS
  <2>1. IInv'
    BY NextKeeps DEF DeadInv
  <2>2. AnswersAdvance /\ TellersStep /\ DeadStep
    BY NextAdvancesAnswers, NextKeepsTellers, NextSparesTheDead DEF DeadInv
  <2>3. Told' /\ DeadSettled'
    BY <2>1, <2>2, DeadStepKeeps
  <2> QED BY <2>1, <2>3 DEF DeadInv
<1>3. DeadInv => NoAskInDeadMailbox
  BY DEF DeadInv, DeadSettled, NoAskInDeadMailbox, Settled
<1> QED BY <1>1, <1>2, <1>3, PTL DEF Spec

-----------------------------------------------------------------------------
(* Sequences and one element m: whether it occurs, and whether only once.   *)

Has(q, m)  == \E i \in DOMAIN q : q[i] = m
Once(q, m) == \A i, j \in DOMAIN q : q[i] = m /\ q[j] = m => i = j

\* From a to b, m is not added.
Shrinks(a, b, m) == (Has(b, m) => Has(a, m)) /\ (Once(a, m) => Once(b, m))

\* A sequence, a new empty one, and a new one of another element.
LEMMA ShortShrinks ==
    ASSUME NEW a, NEW m, NEW x
    PROVE  /\ Shrinks(a, a, m)
           /\ ~Has(<< >>, m) /\ Shrinks(a, << >>, m)
           /\ x # m => ~Has(<<x>>, m) /\ Shrinks(a, <<x>>, m)
           /\ Has(<<x>>, x) /\ Once(<<x>>, x)
<1>1. Shrinks(a, a, m)
  BY DEF Shrinks
<1>2. ~Has(<< >>, m) /\ Once(<< >>, m)
  BY DEF Has, Once
<1>3. x # m => ~Has(<<x>>, m) /\ Once(<<x>>, m)
  BY DEF Has, Once
<1>4. Has(<<x>>, x) /\ Once(<<x>>, x)
  BY DEF Has, Once
<1> QED BY <1>1, <1>2, <1>3, <1>4 DEF Shrinks

\* The rest of a sequence; what stood once at its head is gone from it.
LEMMA TailShrinks ==
    ASSUME NEW S, NEW a \in Seq(S), a # << >>, NEW m
    PROVE  /\ Shrinks(a, Tail(a), m)
           /\ Has(a, Head(a))
           /\ Once(a, Head(a)) => ~Has(Tail(a), Head(a))
<1>1. /\ Len(a) \in Nat \ {0} /\ DOMAIN a = 1 .. Len(a)
      /\ DOMAIN Tail(a) = 1 .. (Len(a) - 1)
      /\ \A i \in 1 .. (Len(a) - 1) : Tail(a)[i] = a[i + 1]
      /\ Head(a) = a[1]
  OBVIOUS
<1>2. Has(Tail(a), m) => Has(a, m)
  <2> SUFFICES ASSUME NEW i \in DOMAIN Tail(a), Tail(a)[i] = m PROVE Has(a, m)
    BY DEF Has
  <2>1. i + 1 \in DOMAIN a /\ a[i + 1] = m
    BY <1>1
  <2> QED BY <2>1 DEF Has
<1>3. Once(a, m) => Once(Tail(a), m)
  <2> SUFFICES ASSUME Once(a, m), NEW i \in DOMAIN Tail(a), NEW j \in DOMAIN Tail(a),
                      Tail(a)[i] = m, Tail(a)[j] = m
               PROVE  i = j
    BY DEF Once
  <2>1. /\ i + 1 \in DOMAIN a /\ a[i + 1] = m
        /\ j + 1 \in DOMAIN a /\ a[j + 1] = m
    BY <1>1
  <2>2. i + 1 = j + 1
    BY <2>1 DEF Once
  <2> QED BY <1>1, <2>2
<1>4. Has(a, Head(a))
  <2>1. 1 \in DOMAIN a /\ a[1] = Head(a)
    BY <1>1
  <2> QED BY <2>1 DEF Has
<1>5. ASSUME Once(a, Head(a)), Has(Tail(a), Head(a)) PROVE FALSE
  <2>1. PICK i \in DOMAIN Tail(a) : Tail(a)[i] = Head(a)
    BY <1>5 DEF Has
  <2>2. /\ i + 1 \in DOMAIN a /\ a[i + 1] = Head(a)
        /\ 1 \in DOMAIN a /\ a[1] = Head(a)
    BY <1>1, <2>1
  <2>3. i + 1 = 1
    BY <1>5, <2>2 DEF Once
  <2> QED BY <1>1, <2>1, <2>3
<1> QED BY <1>2, <1>3, <1>4, <1>5 DEF Shrinks

\* An element more at the end.
LEMMA AppendShrinks ==
    ASSUME NEW S, NEW a \in Seq(S), NEW x, NEW m
    PROVE  /\ m # x => Shrinks(a, Append(a, x), m)
           /\ Has(Append(a, x), x)
           /\ ~Has(a, x) => Once(Append(a, x), x)
<1> DEFINE b == Append(a, x)
<1>1. /\ Len(a) \in Nat /\ DOMAIN a = 1 .. Len(a)
      /\ DOMAIN b = 1 .. (Len(a) + 1)
      /\ b[Len(a) + 1] = x
      /\ \A i \in DOMAIN a : b[i] = a[i]
  OBVIOUS
<1> HIDE DEF b
<1>2. ASSUME NEW i \in DOMAIN b PROVE i \in DOMAIN a \/ i = Len(a) + 1
  BY <1>1
<1>3. DOMAIN a \subseteq DOMAIN b /\ Len(a) + 1 \in DOMAIN b
  BY <1>1
<1>4. ASSUME m # x PROVE Has(b, m) => Has(a, m)
  BY <1>1, <1>2, <1>4 DEF Has
<1>5. ASSUME m # x, Once(a, m) PROVE Once(b, m)
  <2> SUFFICES ASSUME NEW i \in DOMAIN b, NEW j \in DOMAIN b, b[i] = m, b[j] = m
               PROVE  i = j
    BY DEF Once
  <2>1. i \in DOMAIN a /\ j \in DOMAIN a
    BY <1>1, <1>2, <1>5
  <2> QED BY <1>1, <1>5, <2>1 DEF Once
<1>6. Has(b, x)
  BY <1>1, <1>3 DEF Has
<1>7. ASSUME ~Has(a, x) PROVE Once(b, x)
  <2> SUFFICES ASSUME NEW i \in DOMAIN b, NEW j \in DOMAIN b, b[i] = x, b[j] = x
               PROVE  i = j
    BY DEF Once
  <2>1. i \notin DOMAIN a /\ j \notin DOMAIN a
    BY <1>1, <1>7 DEF Has
  <2> QED BY <1>2, <2>1
<1> QED BY <1>4, <1>5, <1>6, <1>7 DEF Shrinks, b

\* One sequence in front of another.
LEMMA ConcatHas ==
    ASSUME NEW S, NEW a \in Seq(S), NEW T, NEW b \in Seq(T), NEW m
    PROVE  /\ Has(a \o b, m) => Has(a, m) \/ Has(b, m)
           /\ ~Has(a, m) => Shrinks(b, a \o b, m)
           /\ Once(a, m) /\ ~Has(b, m) => Once(a \o b, m)
<1> DEFINE c == a \o b
<1>1. /\ Len(a) \in Nat /\ DOMAIN a = 1 .. Len(a)
      /\ Len(b) \in Nat /\ DOMAIN b = 1 .. Len(b)
      /\ DOMAIN c = 1 .. (Len(a) + Len(b))
      /\ \A i \in DOMAIN c : c[i] = IF i <= Len(a) THEN a[i] ELSE b[i - Len(a)]
  OBVIOUS
<1> HIDE DEF c
<1>2. ASSUME NEW i \in DOMAIN c
      PROVE  \/ i \in DOMAIN a /\ c[i] = a[i]
             \/ /\ i - Len(a) \in DOMAIN b /\ c[i] = b[i - Len(a)]
                /\ i \in Nat
  <2>1. CASE i <= Len(a)
    BY <1>1, <2>1
  <2>2. CASE i > Len(a)
    BY <1>1, <2>2
  <2> QED BY <1>1, <2>1, <2>2
<1>3. Has(c, m) => Has(a, m) \/ Has(b, m)
  BY <1>2 DEF Has
<1>4. ASSUME ~Has(a, m), Once(b, m) PROVE Once(c, m)
  <2> SUFFICES ASSUME NEW i \in DOMAIN c, NEW j \in DOMAIN c, c[i] = m, c[j] = m
               PROVE  i = j
    BY DEF Once
  <2>1. /\ i - Len(a) \in DOMAIN b /\ b[i - Len(a)] = m /\ i \in Nat
        /\ j - Len(a) \in DOMAIN b /\ b[j - Len(a)] = m /\ j \in Nat
    BY <1>2, <1>4 DEF Has
  <2>2. i - Len(a) = j - Len(a)
    BY <1>4, <2>1 DEF Once
  <2> QED BY <1>1, <2>1, <2>2
<1>5. ASSUME Once(a, m), ~Has(b, m) PROVE Once(c, m)
  <2> SUFFICES ASSUME NEW i \in DOMAIN c, NEW j \in DOMAIN c, c[i] = m, c[j] = m
               PROVE  i = j
    BY DEF Once
  <2>1. i \in DOMAIN a /\ a[i] = m /\ j \in DOMAIN a /\ a[j] = m
    BY <1>2, <1>5 DEF Has
  <2> QED BY <1>5, <2>1 DEF Once
<1> QED BY <1>3, <1>4, <1>5 DEF Shrinks, c

-----------------------------------------------------------------------------
(* The commands of a stack of frames.                                       *)

Cmds(w) == [i \in DOMAIN w |-> w[i].m]

\* They are a sequence.
LEMMA CmdsTyped ==
    ASSUME NEW w \in Seq(Frame)
    PROVE  /\ Cmds(w) \in Seq(Msg \cup {None})
           /\ Len(Cmds(w)) = Len(w)
           /\ w # << >> => Cmds(w) # << >> /\ Head(Cmds(w)) = Head(w).m
<1>1. /\ DOMAIN w = 1 .. Len(w) /\ Len(w) \in Nat
      /\ \A i \in 1 .. Len(w) : w[i] \in Frame
  OBVIOUS
<1>2. \A f \in Frame : f.m \in Msg \cup {None}
  BY DEF Frame, CommandFrame, RecoveryFrame
<1>3. Cmds(w) \in Seq(Msg \cup {None}) /\ Len(Cmds(w)) = Len(w)
  BY <1>1, <1>2 DEF Cmds
<1>4. ASSUME w # << >> PROVE Cmds(w) # << >> /\ Head(Cmds(w)) = Head(w).m
  <2>1. Len(w) # 0 /\ Head(w) = w[1] /\ 1 \in 1 .. Len(w)
    BY <1>1, <1>4
  <2>2. Len(Cmds(w)) # 0 /\ Head(Cmds(w)) = Cmds(w)[1] /\ Cmds(w)[1] = w[1].m
    BY <1>1, <1>3, <2>1 DEF Cmds
  <2>3. Cmds(w) # << >>
    BY <2>2
  <2> QED BY <2>1, <2>2, <2>3
<1> QED BY <1>3, <1>4

\* The top frame popped, or replaced by one for the same command.
LEMMA CmdsOfTop ==
    ASSUME NEW w \in Seq(Frame), w # << >>
    PROVE  /\ Cmds(Tail(w)) = Tail(Cmds(w))
           /\ \A f : f.m = Head(w).m => Cmds(<<f>> \o Tail(w)) = Cmds(w)
<1>1. /\ DOMAIN w = 1 .. Len(w) /\ Len(w) \in Nat \ {0}
      /\ Head(w) = w[1]
      /\ Tail(w) \in Seq(Frame)
      /\ DOMAIN Tail(w) = 1 .. (Len(w) - 1) /\ Len(Tail(w)) = Len(w) - 1
      /\ \A i \in 1 .. (Len(w) - 1) : Tail(w)[i] = w[i + 1]
  OBVIOUS
<1>2. Cmds(Tail(w)) = Tail(Cmds(w))
  <2> DEFINE c == Cmds(w)
  <2>1. c \in Seq(Msg \cup {None}) /\ Len(c) = Len(w) /\ c # << >>
    BY CmdsTyped
  <2>2. \A i \in 1 .. Len(w) : c[i] = w[i].m
    BY <1>1 DEF Cmds
  <2> HIDE DEF c
  <2>3. /\ Tail(c) \in Seq(Msg \cup {None}) /\ Len(Tail(c)) = Len(w) - 1
        /\ \A i \in 1 .. (Len(w) - 1) : Tail(c)[i] = c[i + 1]
    BY <1>1, <2>1
  <2>4. /\ Cmds(Tail(w)) \in Seq(Msg \cup {None})
        /\ Len(Cmds(Tail(w))) = Len(w) - 1
    BY <1>1, CmdsTyped, ZenonT(40)
  <2>5. \A i \in 1 .. (Len(w) - 1) : Cmds(Tail(w))[i] = c[i + 1]
    BY <1>1, <2>2 DEF Cmds
  <2>6. \A i \in 1 .. Len(Tail(c)) : Cmds(Tail(w))[i] = Tail(c)[i]
    BY <1>1, <2>3, <2>5
  <2> QED BY <2>3, <2>4, <2>6, SeqEqual DEF c
<1>3. ASSUME NEW f, f.m = Head(w).m PROVE Cmds(<<f>> \o Tail(w)) = Cmds(w)
  <2> DEFINE v == <<f>> \o Tail(w)
             t == Tail(w)
  <2>1. /\ Len(<<f>>) = 1 /\ <<f>> \in Seq({f}) /\ <<f>>[1] = f
    OBVIOUS
  <2> HIDE DEF t
  <2>2. /\ DOMAIN v = 1 .. Len(w)
        /\ \A i \in 1 .. Len(w) : v[i] = IF i = 1 THEN f ELSE t[i - 1]
    BY <1>1, <2>1 DEF t
  <2>3. \A i \in 1 .. Len(w) : v[i].m = w[i].m
    BY <1>1, <1>3, <2>2 DEF t
  <2> QED BY <1>1, <2>2, <2>3 DEF Cmds, v, t
<1> QED BY <1>2, <1>3

\* Stashed commands put on a stack.
LEMMA CmdsOfUnstashed ==
    ASSUME NEW s \in Seq(Msg), NEW w \in Seq(Frame)
    PROVE  Cmds([i \in 1 .. Len(s) |-> DecideFrame(s[i])] \o w) = s \o Cmds(w)
<1> DEFINE fs == [i \in 1 .. Len(s) |-> DecideFrame(s[i])]
           cs == Cmds(w)
           C  == Msg \cup {None}
<1>1. /\ Len(s) \in Nat /\ fs \in Seq(Frame) /\ Len(fs) = Len(s)
      /\ \A i \in 1 .. Len(s) : fs[i].m = s[i]
  BY RuntimeAssumption DEF DecideFrame, Frame, CommandFrame
<1>2. /\ cs \in Seq(C) /\ Len(cs) = Len(w) /\ Len(w) \in Nat
      /\ \A i \in 1 .. Len(w) : cs[i] = w[i].m
  BY CmdsTyped DEF Cmds
<1>3. s \in Seq(C)
  OBVIOUS
<1> DEFINE u == fs \o w
           v == s \o cs
<1>4. /\ u \in Seq(Frame) /\ Len(u) = Len(s) + Len(w)
      /\ \A i \in 1 .. (Len(s) + Len(w)) :
            u[i] = IF i <= Len(s) THEN fs[i] ELSE w[i - Len(s)]
  <2> HIDE DEF fs
  <2>1. fs \o w \in Seq(Frame) /\ Len(fs \o w) = Len(fs) + Len(w)
    BY <1>1, ConcatProperties
  <2>2. \A i \in 1 .. Len(fs) + Len(w) :
           (fs \o w)[i] = IF i <= Len(fs) THEN fs[i] ELSE w[i - Len(fs)]
    BY <1>1, ConcatProperties
  <2> QED BY <1>1, <2>1, <2>2
<1>5. /\ v \in Seq(C) /\ Len(v) = Len(s) + Len(w)
      /\ \A i \in 1 .. (Len(s) + Len(w)) :
            v[i] = IF i <= Len(s) THEN s[i] ELSE cs[i - Len(s)]
  <2> HIDE DEF cs, C
  <2>1. s \o cs \in Seq(C) /\ Len(s \o cs) = Len(s) + Len(cs)
    BY <1>2, <1>3, ConcatProperties
  <2>2. \A i \in 1 .. Len(s) + Len(cs) :
           (s \o cs)[i] = IF i <= Len(s) THEN s[i] ELSE cs[i - Len(s)]
    BY <1>2, <1>3, ConcatProperties
  <2> QED BY <1>2, <2>1, <2>2
<1> HIDE DEF fs, cs, C, u, v
<1>6. DOMAIN u = 1 .. (Len(s) + Len(w)) /\ DOMAIN v = 1 .. (Len(s) + Len(w))
  BY <1>4, <1>5
<1>7. ASSUME NEW i \in DOMAIN u PROVE u[i].m = v[i]
  <2>1. CASE i <= Len(s)
    BY <1>1, <1>4, <1>5, <1>6, <2>1
  <2>2. CASE i > Len(s)
    <3>1. i - Len(s) \in 1 .. Len(w) /\ ~(i <= Len(s))
      BY <1>1, <1>2, <1>6, <2>2
    <3>2. u[i] = w[i - Len(s)]
      BY <1>4, <1>6, <3>1
    <3>3. v[i] = cs[i - Len(s)]
      BY <1>5, <1>6, <3>1
    <3> QED BY <1>2, <3>1, <3>2, <3>3
  <2> QED BY <1>1, <1>2, <1>6, <2>1, <2>2
<1>8. v = [i \in DOMAIN v |-> v[i]]
  BY <1>5
<1>9. Cmds(u) = v
  BY <1>6, <1>7, <1>8 DEF Cmds
<1> QED BY <1>9 DEF fs, cs, u, v

-----------------------------------------------------------------------------
(* Where an ask is.                                                         *)

Queued(m, r)  == Has(mailbox[r], m)
Doing(m, r)   == Has(Cmds(work[r]), m)
Stashed(m, r) == Has(stash[r], m)
Nowhere(m)    == \A r \in Runner : ~Queued(m, r) /\ ~Doing(m, r) /\ ~Stashed(m, r)

IsAsk(m) == answer[m] \notin {"unsent", "tell"}

\* m waits in one mailbox, or is worked on in one frame, or is stashed once, or
\* its deferred reply is held.
InOnePlace(m) ==
    /\ \A r \in Runner :
          Once(mailbox[r], m) /\ Once(Cmds(work[r]), m) /\ Once(stash[r], m)
    /\ \A r, q \in Runner : /\ ~(Queued(m, r) /\ Doing(m, q))
                            /\ ~(Queued(m, r) /\ Stashed(m, q))
                            /\ ~(Doing(m, r) /\ Stashed(m, q))
    /\ \A r, q \in Runner : r # q => /\ ~(Queued(m, r) /\ Queued(m, q))
                                     /\ ~(Doing(m, r) /\ Doing(m, q))
                                     /\ ~(Stashed(m, r) /\ Stashed(m, q))
    /\ held[m] # -1 => Nowhere(m)

\* No event of m is stored.
Unwritten(m) == \A e \in Entity : ~Has(rows[e], m)

\* The events of m that are stored have numbers after pre[m] and up to n.
Covered(m, n) ==
    /\ pre[m] <= n
    /\ \A e \in Entity : \A s \in DOMAIN rows[e] :
          rows[e][s] = m => pre[m] < s /\ s <= n

\* An ask is in one place, and its events are covered by the number a reply
\* from there would carry.
Tracked(m) ==
    /\ InOnePlace(m)
    /\ \A r \in Runner : Queued(m, r) => Unwritten(m)
    /\ \A r \in Runner : Doing(m, r) \/ Stashed(m, r) => Covered(m, seqNr[r])
    /\ held[m] # -1 => Covered(m, held[m])

\* What is known of a command, by what its sender knows of it.
Track(m) ==
    /\ answer[m] = "unsent" => Nowhere(m) /\ held[m] = -1 /\ Unwritten(m)
    /\ IsAsk(m) => Tracked(m)
    /\ answer[m] = "ok" => Nowhere(m) /\ held[m] = -1 /\ Covered(m, post[m])

-----------------------------------------------------------------------------
(* A step that does nothing to m.                                           *)

MailStays(m)  == \A r \in Runner : Shrinks(mailbox[r], mailbox'[r], m)
WorkStays(m)  == \A r \in Runner : Shrinks(Cmds(work[r]), Cmds(work'[r]), m)
StashStays(m) == \A r \in Runner : Shrinks(stash[r], stash'[r], m)
LinesStay(m)  == MailStays(m) /\ WorkStays(m) /\ StashStays(m)

\* m is not put anywhere and gets no event; where it stays, no number goes back;
\* if it was waited for, it may have failed.
Undisturbed(m) ==
    /\ LinesStay(m)
    /\ pre'[m] = pre[m]
    /\ held'[m] \in {held[m], -1}
    /\ \A e \in Entity : \A s \in DOMAIN rows'[e] :
          rows'[e][s] = m => s \in DOMAIN rows[e] /\ rows[e][s] = m
    /\ \A r \in Runner :
          Doing(m, r)' \/ Stashed(m, r)' => seqNr[r] <= seqNr'[r]
    /\ \/ answer'[m] = answer[m] /\ post'[m] = post[m]
       \/ answer[m] = "pending" /\ answer'[m] \in {"failed", "timeout"}

\* Then what is known of m stays true.
LEMMA UndisturbedKeeps ==
    ASSUME IInv, IInv', NEW m \in Msg, Track(m), Undisturbed(m)
    PROVE  Track(m)'
<1>1. ASSUME NEW r \in Runner
      PROVE  /\ Queued(m, r)' => Queued(m, r)
             /\ Doing(m, r)' => Doing(m, r)
             /\ Stashed(m, r)' => Stashed(m, r)
             /\ Once(mailbox[r], m) => Once(mailbox'[r], m)
             /\ Once(Cmds(work[r]), m) => Once(Cmds(work'[r]), m)
             /\ Once(stash[r], m) => Once(stash'[r], m)
  BY DEF Undisturbed, LinesStay, MailStays, WorkStays, StashStays, Shrinks,
         Queued, Doing, Stashed
<1>2. Nowhere(m) => Nowhere(m)'
  BY <1>1 DEF Nowhere
<1>3. Unwritten(m) => Unwritten(m)'
  <2> SUFFICES ASSUME Unwritten(m), NEW e \in Entity, Has(rows'[e], m) PROVE FALSE
    BY DEF Unwritten
  <2>1. PICK s \in DOMAIN rows'[e] : rows'[e][s] = m
    BY DEF Has
  <2>2. s \in DOMAIN rows[e] /\ rows[e][s] = m
    BY <2>1 DEF Undisturbed
  <2> QED BY <2>2 DEF Unwritten, Has
<1>4. /\ pre[m] \in Nat /\ pre'[m] = pre[m]
      /\ \A r \in Runner : seqNr[r] \in Nat /\ seqNr'[r] \in Nat
      /\ \A e \in Entity : rows[e] \in Seq(Msg)
  BY DEF IInv, TypeOK, Undisturbed
<1>5. ASSUME NEW i \in Int, NEW j \in Int, Covered(m, i), i <= j
      PROVE  /\ pre'[m] <= j
             /\ \A e \in Entity : \A s \in DOMAIN rows'[e] :
                   rows'[e][s] = m => pre'[m] < s /\ s <= j
  <2>1. pre'[m] <= j
    BY <1>4, <1>5 DEF Covered
  <2>2. ASSUME NEW e \in Entity, NEW s \in DOMAIN rows'[e], rows'[e][s] = m
        PROVE  pre'[m] < s /\ s <= j
    <3>1. s \in DOMAIN rows[e] /\ rows[e][s] = m
      BY <2>2 DEF Undisturbed
    <3>2. s \in Nat
      BY <1>4, <3>1
    <3> QED BY <1>4, <1>5, <3>1, <3>2 DEF Covered
  <2> QED BY <2>1, <2>2
<1>6. held[m] \in Int /\ held'[m] \in {held[m], -1}
  BY DEF IInv, TypeOK, Undisturbed
<1>7. ASSUME Tracked(m) PROVE Tracked(m)'
  <2>1. InOnePlace(m)'
    <3>1. \A r \in Runner :
            Once(mailbox'[r], m) /\ Once(Cmds(work'[r]), m) /\ Once(stash'[r], m)
      BY <1>1, <1>7 DEF Tracked, InOnePlace
    <3>2. \A r, q \in Runner : /\ ~(Queued(m, r)' /\ Doing(m, q)')
                               /\ ~(Queued(m, r)' /\ Stashed(m, q)')
                               /\ ~(Doing(m, r)' /\ Stashed(m, q)')
      BY <1>1, <1>7 DEF Tracked, InOnePlace
    <3>3. \A r, q \in Runner : r # q => /\ ~(Queued(m, r)' /\ Queued(m, q)')
                                        /\ ~(Doing(m, r)' /\ Doing(m, q)')
                                        /\ ~(Stashed(m, r)' /\ Stashed(m, q)')
      BY <1>1, <1>7 DEF Tracked, InOnePlace
    <3>4. held'[m] # -1 => Nowhere(m)'
      BY <1>2, <1>6, <1>7 DEF Tracked, InOnePlace
    <3> QED BY <3>1, <3>2, <3>3, <3>4 DEF InOnePlace
  <2>2. \A r \in Runner : Queued(m, r)' => Unwritten(m)'
    BY <1>1, <1>3, <1>7 DEF Tracked
  <2>3. ASSUME NEW r \in Runner, Doing(m, r)' \/ Stashed(m, r)'
        PROVE  Covered(m, seqNr[r])'
    <3>1. Covered(m, seqNr[r])
      BY <1>1, <1>7, <2>3 DEF Tracked
    <3>2. seqNr[r] <= seqNr'[r] /\ seqNr[r] \in Int /\ seqNr'[r] \in Int
      BY <1>4, <2>3 DEF Undisturbed
    <3> QED BY <1>5, <3>1, <3>2 DEF Covered
  <2>4. held'[m] # -1 => Covered(m, held[m])'
    <3> SUFFICES ASSUME held'[m] # -1 PROVE Covered(m, held[m])'
      OBVIOUS
    <3> DEFINE j == held[m]
    <3>1. held'[m] = j /\ j \in Int /\ j <= j /\ Covered(m, j)
      BY <1>6, <1>7 DEF Tracked
    <3> HIDE DEF j
    <3> QED BY <1>5, <3>1 DEF Covered
  <2> QED BY <2>1, <2>2, <2>3, <2>4 DEF Tracked
<1>8. CASE answer'[m] = answer[m] /\ post'[m] = post[m]
  <2>1. answer'[m] = "ok" => Covered(m, post[m])'
    <3> SUFFICES ASSUME answer[m] = "ok" PROVE Covered(m, post[m])'
      BY <1>8
    <3>1. Covered(m, post[m]) /\ post[m] \in Int
      BY DEF Track, IInv, TypeOK
    <3>2. post[m] <= post[m]
      BY <3>1
    <3> QED BY <1>5, <1>8, <3>1, <3>2 DEF Covered
  <2>2. answer[m] = "unsent" \/ answer[m] = "ok" => held'[m] = -1 /\ Nowhere(m)'
    BY <1>2, <1>6 DEF Track
  <2>3. answer[m] = "unsent" => Unwritten(m)'
    BY <1>3 DEF Track
  <2>4. IsAsk(m)' => Tracked(m)'
    BY <1>7, <1>8 DEF IsAsk, Track
  <2> QED BY <1>8, <2>1, <2>2, <2>3, <2>4 DEF Track
<1>9. CASE answer[m] = "pending" /\ answer'[m] \in {"failed", "timeout"}
  <2>1. Tracked(m)'
    BY <1>7, <1>9 DEF IsAsk, Track
  <2> QED BY <1>9, <2>1 DEF Track
<1> QED BY <1>8, <1>9 DEF Undisturbed

\* The same for a step that writes, numbers and answers nothing.
LEMMA CalmIsUndisturbed ==
    ASSUME IInv, NEW m \in Msg, LinesStay(m), UNCHANGED <<seqNr, rows, pre, held, post>>,
           \/ answer'[m] = answer[m]
           \/ answer[m] = "pending" /\ answer'[m] \in {"failed", "timeout"}
    PROVE  Undisturbed(m)
<1>1. \A r \in Runner : seqNr[r] <= seqNr'[r]
  BY DEF IInv, TypeOK
<1> QED BY <1>1 DEF Undisturbed

\* One runner's mailbox, stack or stash is replaced.
LEMMA OneLineStays ==
    ASSUME IInv, NEW r \in Runner, NEW y, NEW m
    PROVE  /\ UNCHANGED mailbox => MailStays(m)
           /\ UNCHANGED work => WorkStays(m)
           /\ UNCHANGED stash => StashStays(m)
           /\ mailbox' = [mailbox EXCEPT ![r] = y] /\ Shrinks(mailbox[r], y, m)
              => MailStays(m)
           /\ work' = [work EXCEPT ![r] = y] /\ Shrinks(Cmds(work[r]), Cmds(y), m)
              => WorkStays(m)
           /\ stash' = [stash EXCEPT ![r] = y] /\ Shrinks(stash[r], y, m)
              => StashStays(m)
<1>1. /\ UNCHANGED mailbox => MailStays(m)
      /\ UNCHANGED work => WorkStays(m)
      /\ UNCHANGED stash => StashStays(m)
  BY ShortShrinks DEF MailStays, WorkStays, StashStays
<1>2. ASSUME mailbox' = [mailbox EXCEPT ![r] = y], Shrinks(mailbox[r], y, m)
      PROVE  MailStays(m)
  <2>1. ASSUME NEW q \in Runner PROVE Shrinks(mailbox[q], mailbox'[q], m)
    <3>1. mailbox'[q] = IF q = r THEN y ELSE mailbox[q]
      BY <1>2 DEF IInv, TypeOK
    <3> QED BY <1>2, <3>1, ShortShrinks
  <2> QED BY <2>1 DEF MailStays
<1>3. ASSUME work' = [work EXCEPT ![r] = y], Shrinks(Cmds(work[r]), Cmds(y), m)
      PROVE  WorkStays(m)
  <2>1. ASSUME NEW q \in Runner PROVE Shrinks(Cmds(work[q]), Cmds(work'[q]), m)
    <3>1. work'[q] = IF q = r THEN y ELSE work[q]
      BY <1>3 DEF IInv, TypeOK
    <3> QED BY <1>3, <3>1, ShortShrinks
  <2> QED BY <2>1 DEF WorkStays
<1>4. ASSUME stash' = [stash EXCEPT ![r] = y], Shrinks(stash[r], y, m)
      PROVE  StashStays(m)
  <2>1. ASSUME NEW q \in Runner PROVE Shrinks(stash[q], stash'[q], m)
    <3>1. stash'[q] = IF q = r THEN y ELSE stash[q]
      BY <1>4 DEF IInv, TypeOK
    <3> QED BY <1>4, <3>1, ShortShrinks
  <2> QED BY <2>1 DEF StashStays
<1> QED BY <1>1, <1>2, <1>3, <1>4

\* What the steps do to a stack: the top frame is changed, or popped.
LEMMA StackStays ==
    ASSUME IInv, NEW r \in Runner, work[r] # << >>, NEW m
    PROVE  /\ \A f : f.m = Top(r).m =>
                 Shrinks(Cmds(work[r]), Cmds(<<f>> \o Tail(work[r])), m)
           /\ Shrinks(Cmds(work[r]), Cmds(Tail(work[r])), m)
           /\ Shrinks(Cmds(work[r]), Cmds(<< >>), m)
           /\ Doing(Top(r).m, r)
           /\ Once(Cmds(work[r]), Top(r).m) => ~Has(Cmds(Tail(work[r])), Top(r).m)
<1> DEFINE w == work[r]
<1>1. w \in Seq(Frame) /\ w # << >>
  BY DEF IInv, TypeOK
<1>2. Top(r) = Head(w) /\ Doing(Top(r).m, r) = Has(Cmds(w), Top(r).m)
  BY DEF Top, Doing
<1> HIDE DEF w
<1>3. /\ Cmds(Tail(w)) = Tail(Cmds(w))
      /\ \A f : f.m = Head(w).m => Cmds(<<f>> \o Tail(w)) = Cmds(w)
  BY <1>1, CmdsOfTop
<1>4. /\ Cmds(w) \in Seq(Msg \cup {None}) /\ Cmds(w) # << >>
      /\ Head(Cmds(w)) = Head(w).m
  BY <1>1, CmdsTyped
<1> DEFINE c == Cmds(w)
<1>5. c \in Seq(Msg \cup {None}) /\ c # << >> /\ Head(c) = Top(r).m
  BY <1>2, <1>4
<1>6. Cmds(Tail(w)) = Tail(c) /\ Cmds(w) = c
  BY <1>3
<1> HIDE DEF c
<1>7. /\ Shrinks(c, Tail(c), m)
      /\ Has(c, Top(r).m)
      /\ Once(c, Top(r).m) => ~Has(Tail(c), Top(r).m)
  BY <1>5, TailShrinks
<1>8. \A f : f.m = Top(r).m => Shrinks(c, Cmds(<<f>> \o Tail(w)), m)
  BY <1>2, <1>3, <1>6, ShortShrinks
<1>9. Shrinks(c, Cmds(<< >>), m)
  <2>1. Cmds(<< >>) = << >>
    BY DEF Cmds
  <2> QED BY <2>1, ShortShrinks
<1> QED BY <1>2, <1>6, <1>7, <1>8, <1>9 DEF w

\* A frame for the same command.
LEMMA FrameEdits ==
    ASSUME NEW f \in Frame
    PROVE  /\ \A a : [f EXCEPT !.on = a].m = f.m
           /\ \A a : [f EXCEPT !.phase = a].m = f.m
           /\ [f EXCEPT !.left = @ - 1].m = f.m
           /\ [f EXCEPT !.phase = "run", !.left = @ - 1].m = f.m
BY DEF Frame, CommandFrame, RecoveryFrame

\* The top frame of a runner's stack is changed, or popped.
LEMMA TopStays ==
    ASSUME IInv, NEW r \in Runner, work[r] # << >>, NEW m,
           \/ \E a : work' = [work EXCEPT ![r] =
                                <<[Top(r) EXCEPT !.on = a]>> \o Tail(@)]
           \/ \E a : work' = [work EXCEPT ![r] =
                                <<[Top(r) EXCEPT !.phase = a]>> \o Tail(@)]
           \/ work' = [work EXCEPT ![r] = Consumed(r)]
           \/ work' = [work EXCEPT ![r] =
                         <<[Top(r) EXCEPT !.phase = "run", !.left = @ - 1]>> \o Tail(@)]
           \/ work' = [work EXCEPT ![r] = Popped(r)]
           \/ work' = [work EXCEPT ![r] = << >>]
    PROVE  WorkStays(m)
<1>1. Top(r) \in Frame
  BY TopTyped DEF IInv
<1>2. \A f : f.m = Top(r).m =>
         Shrinks(Cmds(work[r]), Cmds(<<f>> \o Tail(work[r])), m)
  BY StackStays
<1>3. ASSUME NEW f, f.m = Top(r).m, work' = [work EXCEPT ![r] = <<f>> \o Tail(work[r])]
      PROVE  WorkStays(m)
  BY <1>2, <1>3, OneLineStays
<1>4. CASE \E a : work' = [work EXCEPT ![r] =
                             <<[Top(r) EXCEPT !.on = a]>> \o Tail(@)]
  <2>1. PICK a : work' = [work EXCEPT ![r] = <<[Top(r) EXCEPT !.on = a]>> \o Tail(@)]
    BY <1>4
  <2> DEFINE f == [Top(r) EXCEPT !.on = a]
  <2>2. f.m = Top(r).m
    BY <1>1, FrameEdits
  <2>3. work' = [work EXCEPT ![r] = <<f>> \o Tail(work[r])]
    BY <2>1
  <2> HIDE DEF f
  <2> QED BY <1>3, <2>2, <2>3
<1>5. CASE \E a : work' = [work EXCEPT ![r] =
                             <<[Top(r) EXCEPT !.phase = a]>> \o Tail(@)]
  <2>1. PICK a : work' = [work EXCEPT ![r] = <<[Top(r) EXCEPT !.phase = a]>> \o Tail(@)]
    BY <1>5
  <2> DEFINE f == [Top(r) EXCEPT !.phase = a]
  <2>2. f.m = Top(r).m
    BY <1>1, FrameEdits
  <2>3. work' = [work EXCEPT ![r] = <<f>> \o Tail(work[r])]
    BY <2>1
  <2> HIDE DEF f
  <2> QED BY <1>3, <2>2, <2>3
<1>6. CASE work' = [work EXCEPT ![r] = Consumed(r)]
  BY <1>1, <1>3, <1>6, FrameEdits DEF Consumed
<1>7. CASE work' = [work EXCEPT ![r] =
                      <<[Top(r) EXCEPT !.phase = "run", !.left = @ - 1]>> \o Tail(@)]
  BY <1>1, <1>3, <1>7, FrameEdits
<1>8. CASE work' = [work EXCEPT ![r] = Popped(r)]
  BY <1>8, OneLineStays, StackStays DEF Popped
<1>9. CASE work' = [work EXCEPT ![r] = << >>]
  BY <1>9, OneLineStays, StackStays
<1> QED BY <1>4, <1>5, <1>6, <1>7, <1>8, <1>9

\* A mailbox loses its head, or gains another message.
LEMMA MailboxStays ==
    ASSUME IInv, NEW r \in Runner, NEW m, NEW x,
           \/ mailbox[r] # << >> /\ mailbox' = [mailbox EXCEPT ![r] = Tail(@)]
           \/ m # x /\ mailbox' = [mailbox EXCEPT ![r] = Append(@, x)]
           \/ mailbox' = [mailbox EXCEPT ![r] = << >>]
    PROVE  MailStays(m)
<1> DEFINE q == mailbox[r]
<1>1. q \in Seq(Msg \cup {StopMsg})
  BY DEF IInv, TypeOK
<1> HIDE DEF q
<1>2. q # << >> => Shrinks(q, Tail(q), m)
  BY <1>1, TailShrinks
<1>3. m # x => Shrinks(q, Append(q, x), m)
  BY <1>1, AppendShrinks
<1>4. Shrinks(q, << >>, m)
  BY ShortShrinks
<1> QED BY <1>2, <1>3, <1>4, OneLineStays DEF q

\* A crash: the stack is gone, and the asker may have been told.
LEMMA CrashIsCalm ==
    ASSUME IInv, NEW r \in Runner, work[r] # << >>, Crash(r), NEW m \in Msg
    PROVE  /\ WorkStays(m)
           /\ \/ answer'[m] = answer[m]
              \/ answer[m] = "pending" /\ answer'[m] \in {"failed", "timeout"}
<1>1. WorkStays(m)
  BY TopStays DEF Crash
<1>2. answer' = answer \/ answer' = Settle(Bottom(r).m, "failed")
  BY DEF Crash
<1>3. answer \in [Msg -> Outcome]
  BY DEF IInv, TypeOK
<1> QED BY <1>1, <1>2, <1>3 DEF Settle

\* Steps of a runner that disturb no command.
LEMMA RunnerUndisturbed ==
    ASSUME IInv, NEW r \in Runner, NEW m \in Msg,
           \/ TakeStop(r) \/ Terminate(r) \/ AskReturns(r) \/ UserCodeReturns(r)
           \/ Throw(r) \/ Run(r) \/ Snapshot(r) \/ Stop(r) \/ StashInChain(r)
           \/ \E k \in 0 .. MaxBatch : PersistDuplicate(r, k)
    PROVE  Undisturbed(m)
<1> USE RuntimeAssumption
<1>0. m # StopMsg
  OBVIOUS
<1>1. CASE TakeStop(r)
  <2>1. /\ mailbox[r] # << >> /\ mailbox' = [mailbox EXCEPT ![r] = Tail(@)]
        /\ UNCHANGED <<work, stash, seqNr, rows, pre, held, post, answer>>
    BY <1>1 DEF TakeStop, Idle, entityVars, journalVars, askVars
  <2>2. LinesStay(m)
    BY <2>1, MailboxStays, OneLineStays DEF LinesStay
  <2> QED BY <2>1, <2>2, CalmIsUndisturbed
<1>2. CASE Terminate(r)
  <2>1. /\ mailbox' = [mailbox EXCEPT ![r] = << >>]
        /\ UNCHANGED <<work, stash, seqNr, rows, pre, held, post>>
    BY <1>2 DEF Terminate, entityVars, journalVars
  <2>2. \/ answer'[m] = answer[m]
        \/ answer[m] = "pending" /\ answer'[m] \in {"failed", "timeout"}
    BY <1>2 DEF Terminate
  <2>3. LinesStay(m)
    BY <2>1, MailboxStays, OneLineStays DEF LinesStay
  <2> QED BY <2>1, <2>2, <2>3, CalmIsUndisturbed
<1>3. CASE AskReturns(r) \/ Run(r) \/ Snapshot(r) \/ StashInChain(r)
  <2>1. UNCHANGED <<mailbox, stash, seqNr, rows, pre, held, post, answer>>
    BY <1>3 DEF AskReturns, Run, Snapshot, StashInChain, entityVars, journalVars,
                askVars
  <2>2. work[r] # << >>
    BY <1>3 DEF AskReturns, Run, Snapshot, StashInChain, AtChainedEffect, AtEffect
  <2>3. WorkStays(m)
    <3>1. CASE AskReturns(r)
      BY <2>2, <3>1, TopStays DEF AskReturns
    <3>2. CASE Run(r)
      BY <2>2, <3>2, TopStays DEF Run
    <3>3. CASE Snapshot(r)
      BY <2>2, <3>3, TopStays DEF Snapshot
    <3>4. CASE StashInChain(r)
      BY <2>2, <3>4, TopStays DEF StashInChain
    <3> QED BY <1>3, <3>1, <3>2, <3>3, <3>4
  <2>4. LinesStay(m)
    BY <2>1, <2>3, OneLineStays DEF LinesStay
  <2> QED BY <2>1, <2>4, CalmIsUndisturbed
<1>4. CASE UserCodeReturns(r)
  <2>1. UNCHANGED <<mailbox, stash, seqNr, rows, pre, held, post, answer>>
    BY <1>4 DEF UserCodeReturns, entityVars, journalVars, askVars
  <2>2. work[r] # << >>
    BY <1>4 DEF UserCodeReturns, InUserCode
  <2>3. \/ work' = [work EXCEPT ![r] = Popped(r)]
        \/ work' = [work EXCEPT ![r] = <<[Top(r) EXCEPT !.phase = "effect"]>> \o Tail(@)]
    BY <1>4 DEF UserCodeReturns, Popped
  <2>4. WorkStays(m)
    BY <2>2, <2>3, TopStays
  <2>5. LinesStay(m)
    BY <2>1, <2>4, OneLineStays DEF LinesStay
  <2> QED BY <2>1, <2>5, CalmIsUndisturbed
<1>5. CASE Throw(r) \/ \E k \in 0 .. MaxBatch : PersistDuplicate(r, k)
  <2>1. /\ Crash(r) /\ work[r] # << >>
        /\ UNCHANGED <<mailbox, stash, seqNr, rows, pre, held, post>>
    BY <1>5 DEF Throw, PersistDuplicate, InUserCode, AtChainedEffect, AtEffect,
                entityVars, journalVars
  <2>2. /\ WorkStays(m)
        /\ \/ answer'[m] = answer[m]
           \/ answer[m] = "pending" /\ answer'[m] \in {"failed", "timeout"}
    BY <2>1, CrashIsCalm
  <2>3. LinesStay(m)
    BY <2>1, <2>2, OneLineStays DEF LinesStay
  <2> QED BY <2>1, <2>2, <2>3, CalmIsUndisturbed
<1>6. CASE Stop(r)
  <2>1. /\ mailbox' = [mailbox EXCEPT ![r] = Append(@, StopMsg)]
        /\ work' = [work EXCEPT ![r] = Popped(r)] /\ work[r] # << >>
        /\ UNCHANGED <<stash, seqNr, rows, pre, held, post, answer>>
    BY <1>6 DEF Stop, AtEffect, entityVars, journalVars, askVars
  <2>2. MailStays(m)
    BY <1>0, <2>1, MailboxStays
  <2>3. WorkStays(m)
    BY <2>1, TopStays
  <2>4. LinesStay(m)
    BY <2>1, <2>2, <2>3, OneLineStays DEF LinesStay
  <2> QED BY <2>1, <2>4, CalmIsUndisturbed
<1> QED BY <1>1, <1>2, <1>3, <1>4, <1>5, <1>6

\* Other steps that disturb no command.
LEMMA OthersUndisturbed ==
    ASSUME IInv, NEW m \in Msg,
           \/ \E n \in Msg : AskTimeout(n)
           \/ \E r \in Runner, t \in TimerId : CancelTimer(r, t)
           \/ ShutdownBegin \/ ShutdownEnd \/ UNCHANGED vars
    PROVE  Undisturbed(m)
<1> USE RuntimeAssumption
<1>1. CASE ShutdownBegin
  <2>1. UNCHANGED <<work, stash, seqNr, rows, pre, held, post, answer>>
    BY <1>1 DEF ShutdownBegin, entityVars, journalVars, askVars
  <2>2. ASSUME NEW r \in Runner PROVE Shrinks(mailbox[r], mailbox'[r], m)
    <3>1. mailbox'[r] = mailbox[r] \/ mailbox'[r] = Append(mailbox[r], StopMsg)
      BY <1>1 DEF ShutdownBegin
    <3>2. mailbox[r] \in Seq(Msg \cup {StopMsg}) /\ m # StopMsg
      BY DEF IInv, TypeOK
    <3>3. Shrinks(mailbox[r], Append(mailbox[r], StopMsg), m)
      <4> DEFINE q == mailbox[r]
      <4>1. q \in Seq(Msg \cup {StopMsg}) /\ m # StopMsg
        BY <3>2
      <4> HIDE DEF q
      <4>2. Shrinks(q, Append(q, StopMsg), m)
        BY <4>1, AppendShrinks
      <4> QED BY <4>2 DEF q
    <3> QED BY <3>1, <3>3, ShortShrinks
  <2>3. LinesStay(m)
    BY <2>1, <2>2, ShortShrinks DEF LinesStay, MailStays, WorkStays, StashStays
  <2> QED BY <2>1, <2>3, CalmIsUndisturbed
<1>2. ASSUME UNCHANGED <<mailbox, work, stash, seqNr, rows, pre, held, post>>,
             \/ answer'[m] = answer[m]
             \/ answer[m] = "pending" /\ answer'[m] \in {"failed", "timeout"}
      PROVE  Undisturbed(m)
  <2>1. LinesStay(m)
    BY <1>2, ShortShrinks DEF LinesStay, MailStays, WorkStays, StashStays
  <2> QED BY <1>2, <2>1, CalmIsUndisturbed
<1>3. CASE ShutdownEnd \/ UNCHANGED vars
           \/ \E r \in Runner, t \in TimerId : CancelTimer(r, t)
  BY <1>2, <1>3 DEF ShutdownEnd, CancelTimer, vars, runnerVars, entityVars, journalVars,
                    askVars
<1>4. CASE \E n \in Msg : AskTimeout(n)
  <2>1. answer \in [Msg -> Outcome]
    BY DEF IInv, TypeOK
  <2> QED BY <1>2, <1>4, <2>1 DEF AskTimeout, runnerVars, entityVars, journalVars
<1> QED BY <1>1, <1>3, <1>4

\* A message to an entity: other commands stay where they are, the number of a
\* runner that has something to do does not change, and the message is queued
\* with one runner.
LEMMA DeliverLines ==
    ASSUME IInv, NEW e \in Entity, NEW x \in Msg, NEW w \in [Runner -> Seq(Frame)],
           \A q \in Runner : Cmds(w[q]) = Cmds(work[q]), Deliver(e, x, w)
    PROVE  /\ \A m \in Msg : /\ WorkStays(m) /\ StashStays(m)
                             /\ m # x => MailStays(m)
           /\ \A m \in Msg, q \in Runner :
                 Doing(m, q)' \/ Stashed(m, q)' => seqNr'[q] = seqNr[q]
           /\ \E q \in Runner :
                 /\ mailbox'[q] = <<x>> \/ mailbox'[q] = Append(mailbox[q], x)
                 /\ \A p \in Runner : p # q => mailbox'[p] = mailbox[p]
<1> USE RuntimeAssumption
<1>1. /\ mailbox \in [Runner -> Seq(Msg \cup {StopMsg})]
      /\ stash \in [Runner -> Seq(Msg)] /\ seqNr \in [Runner -> Nat]
  BY DEF IInv, TypeOK
<1>2. CASE entities[e] # None /\ status[entities[e]] # "terminated"
  <2> DEFINE q == entities[e]
  <2>1. /\ mailbox' = [mailbox EXCEPT ![q] = Append(@, x)]
        /\ work' = w /\ UNCHANGED <<stash, seqNr>>
    BY <1>2 DEF Deliver, entityVars
  <2>2. q \in Runner
    BY <1>2 DEF IInv, TypeOK
  <2> HIDE DEF q
  <2>3. ASSUME NEW m \in Msg PROVE WorkStays(m) /\ StashStays(m)
    BY <2>1, ShortShrinks DEF WorkStays, StashStays
  <2>4. ASSUME NEW m \in Msg, m # x PROVE MailStays(m)
    BY <2>1, <2>2, <2>4, MailboxStays
  <2>5. /\ mailbox'[q] = Append(mailbox[q], x)
        /\ \A p \in Runner : p # q => mailbox'[p] = mailbox[p]
    BY <1>1, <2>1, <2>2
  <2> QED BY <2>1, <2>2, <2>3, <2>4, <2>5
<1>3. CASE ~(entities[e] # None /\ status[entities[e]] # "terminated")
  <2>1. PICK r \in Runner : Create(e, r, x, w)
    BY <1>3 DEF Deliver
  <2>2. mailbox' = [mailbox EXCEPT ![r] = <<x>>]
    BY <2>1 DEF Create
  <2>3. ASSUME NEW m \in Msg, m # x PROVE MailStays(m)
    <3>1. Shrinks(mailbox[r], <<x>>, m)
      BY <2>3, ShortShrinks
    <3> QED BY <2>2, <3>1, OneLineStays
  <2>4. /\ mailbox'[r] = <<x>>
        /\ \A p \in Runner : p # r => mailbox'[p] = mailbox[p]
    BY <1>1, <2>2
  <2>5. CASE /\ Recover(e, r)
             /\ work' = [w EXCEPT ![r] = IF HasHook THEN <<HookFrame>> ELSE << >>]
    <3>1. /\ stash' = [stash EXCEPT ![r] = << >>]
          /\ \A q \in Runner : q # r => seqNr'[q] = seqNr[q]
      BY <1>1, <2>5 DEF Recover
    <3>2. ASSUME NEW m \in Msg PROVE ~Has(Cmds(work'[r]), m)
      <4>1. Cmds(<<HookFrame>>) = <<None>> /\ Cmds(<< >>) = << >>
        BY DEF Cmds, HookFrame
      <4>2. work'[r] = <<HookFrame>> \/ work'[r] = << >>
        BY <2>5
      <4>3. m # None
        OBVIOUS
      <4> QED BY <4>1, <4>2, <4>3, ShortShrinks, ZenonT(40)
    <3>3. ASSUME NEW m \in Msg PROVE WorkStays(m)
      <4> SUFFICES ASSUME NEW q \in Runner
                   PROVE  Shrinks(Cmds(work[q]), Cmds(work'[q]), m)
        BY DEF WorkStays
      <4>1. CASE q = r
        <5>1. ~Has(Cmds(work'[r]), m)
          BY <3>2
        <5>2. Once(Cmds(work'[r]), m)
          BY <5>1 DEF Has, Once
        <5> QED BY <4>1, <5>1, <5>2 DEF Shrinks
      <4>2. CASE q # r
        <5>1. work'[q] = w[q]
          BY <2>5, <4>2
        <5> QED BY <5>1, ShortShrinks
      <4> QED BY <4>1, <4>2
    <3>4. ASSUME NEW m \in Msg PROVE StashStays(m) /\ ~Has(stash'[r], m)
      <4>1. stash'[r] = << >>
        BY <1>1, <3>1
      <4> QED BY <3>1, <4>1, ShortShrinks, OneLineStays
    <3>5. ASSUME NEW m \in Msg, NEW q \in Runner, Doing(m, q)' \/ Stashed(m, q)'
          PROVE  seqNr'[q] = seqNr[q]
      BY <3>1, <3>2, <3>4, <3>5 DEF Doing, Stashed
    <3> QED BY <2>3, <2>4, <3>3, <3>4, <3>5
  <2>6. CASE work' = w /\ UNCHANGED entityVars
    <3>1. ASSUME NEW m \in Msg PROVE WorkStays(m) /\ StashStays(m)
      BY <2>6, ShortShrinks DEF WorkStays, StashStays, entityVars
    <3> QED BY <2>3, <2>4, <2>6, <3>1 DEF entityVars
  <2> QED BY <2>1, <2>5, <2>6 DEF Create
<1> QED BY <1>2, <1>3

\* A command that is told is not tracked.
LEMMA ToldIsTracked ==
    ASSUME NEW m \in Msg, answer'[m] = "tell"
    PROVE  Track(m)'
BY DEF Track, IsAsk

\* A tell that goes out, or an ask, with the delivery it comes with.
LEMMA SendKeepsTrack ==
    ASSUME IInv, IInv', \A m \in Msg : Track(m), NEW x \in Msg,
           NEW e \in Entity, NEW w \in [Runner -> Seq(Frame)],
           \A q \in Runner : Cmds(w[q]) = Cmds(work[q]), Deliver(e, x, w),
           SentTell(x) \/ SentAsk(x), UNCHANGED <<rows, pre, post, held>>
    PROVE  \A m \in Msg : Track(m)'
<1> USE RuntimeAssumption
<1>1. /\ \A m \in Msg : /\ WorkStays(m) /\ StashStays(m)
                        /\ m # x => MailStays(m)
      /\ \A m \in Msg, q \in Runner :
            Doing(m, q)' \/ Stashed(m, q)' => seqNr'[q] = seqNr[q]
  BY DeliverLines
<1>2. PICK q \in Runner :
         /\ mailbox'[q] = <<x>> \/ mailbox'[q] = Append(mailbox[q], x)
         /\ \A p \in Runner : p # q => mailbox'[p] = mailbox[p]
  BY DeliverLines
<1>3. answer \in [Msg -> Outcome] /\ answer[x] = "unsent" /\ seqNr \in [Runner -> Nat]
  BY DEF IInv, TypeOK, SentTell, SentAsk, IsFresh
<1>4. ASSUME NEW m \in Msg, m # x PROVE Track(m)'
  <2>1. answer'[m] = answer[m]
    BY <1>3, <1>4 DEF SentTell, SentAsk
  <2>2. \A r \in Runner : Doing(m, r)' \/ Stashed(m, r)' => seqNr[r] <= seqNr'[r]
    BY <1>1, <1>3
  <2>3. Undisturbed(m)
    BY <1>1, <1>4, <2>1, <2>2 DEF Undisturbed, LinesStay
  <2> QED BY <2>3, UndisturbedKeeps
<1>5. CASE SentTell(x)
  <2>1. answer'[x] = "tell"
    BY <1>3, <1>5 DEF SentTell
  <2> QED BY <1>4, <2>1, ToldIsTracked
<1>6. CASE SentAsk(x)
  <2>1. answer'[x] = "pending"
    BY <1>3, <1>6 DEF SentAsk
  <2>2. Nowhere(x) /\ held[x] = -1 /\ Unwritten(x)
    BY <1>3 DEF Track
  <2>3. \A r \in Runner : /\ ~Doing(x, r)' /\ ~Stashed(x, r)'
                          /\ Once(Cmds(work'[r]), x) /\ Once(stash'[r], x)
    <3> SUFFICES ASSUME NEW r \in Runner
                 PROVE  /\ ~Has(Cmds(work'[r]), x) /\ ~Has(stash'[r], x)
                        /\ Once(Cmds(work'[r]), x) /\ Once(stash'[r], x)
      BY DEF Doing, Stashed
    <3>1. ~Has(Cmds(work'[r]), x) /\ ~Has(stash'[r], x)
      BY <1>1, <2>2 DEF WorkStays, StashStays, Shrinks, Nowhere, Doing, Stashed
    <3> QED BY <3>1 DEF Has, Once
  <2>4. \A r \in Runner : /\ Queued(x, r)' => r = q
                          /\ Once(mailbox'[r], x)
    <3> SUFFICES ASSUME NEW r \in Runner
                 PROVE  (Has(mailbox'[r], x) => r = q) /\ Once(mailbox'[r], x)
      BY DEF Queued
    <3>1. ~Has(mailbox[r], x) /\ mailbox[r] \in Seq(Msg \cup {StopMsg})
      BY <2>2 DEF Nowhere, Queued, IInv, TypeOK
    <3>2. CASE r # q
      <4>1. ~Has(mailbox'[r], x)
        BY <1>2, <3>1, <3>2
      <4> QED BY <4>1 DEF Has, Once
    <3>3. CASE r = q
      <4>1. Once(<<x>>, x)
        BY ShortShrinks
      <4>2. Once(Append(mailbox[r], x), x)
        <5> DEFINE b == mailbox[r]
        <5>1. ~Has(b, x) /\ b \in Seq(Msg \cup {StopMsg})
          BY <3>1
        <5> HIDE DEF b
        <5>2. Once(Append(b, x), x)
          BY <5>1, AppendShrinks
        <5> QED BY <5>2 DEF b
      <4> QED BY <1>2, <3>3, <4>1, <4>2
    <3> QED BY <3>2, <3>3
  <2>5. held'[x] = -1 /\ Unwritten(x)'
    BY <2>2 DEF Unwritten
  <2>6. Tracked(x)'
    BY <2>3, <2>4, <2>5 DEF Tracked, InOnePlace
  <2>7. Track(x)'
    BY <2>1, <2>6 DEF Track
  <2> QED BY <1>4, <2>7
<1> QED BY <1>5, <1>6

\* A told command is put in a mailbox, a timer or a sync effect.
LEMMA TellKeepsTrack ==
    ASSUME IInv, IInv', \A m \in Msg : Track(m), NEW r \in Runner, NEW x \in Msg,
           UNCHANGED mailbox \/ mailbox' = [mailbox EXCEPT ![r] = Append(@, x)],
           UNCHANGED <<work, stash, seqNr, rows, pre, post, held>>,
           SentTell(x) \/ (answer[x] = "tell" /\ UNCHANGED answer)
    PROVE  \A m \in Msg : Track(m)'
<1>1. answer \in [Msg -> Outcome]
  BY DEF IInv, TypeOK
<1>2. answer'[x] = "tell"
  BY <1>1 DEF SentTell
<1>3. ASSUME NEW m \in Msg, m # x PROVE Track(m)'
  <2>1. MailStays(m)
    BY <1>3, MailboxStays, OneLineStays
  <2>2. LinesStay(m)
    BY <2>1, OneLineStays DEF LinesStay
  <2>3. answer'[m] = answer[m]
    BY <1>1, <1>3 DEF SentTell
  <2>4. Undisturbed(m)
    BY <2>2, <2>3, CalmIsUndisturbed
  <2> QED BY <2>4, UndisturbedKeeps
<1> QED BY <1>2, <1>3, ToldIsTracked

\* Take: the command leaves the mailbox for the stack, and no event of it is
\* stored yet, so that its numbers start with the one its handle captures.
LEMMA TakeKeepsTrack ==
    ASSUME IInv, IInv', \A m \in Msg : Track(m), NEW r \in Runner, Take(r)
    PROVE  \A m \in Msg : Track(m)'
<1> USE RuntimeAssumption
<1> DEFINE q == mailbox[r]
<1>0. Head(q) \in Msg
  BY DEF Take, Idle, IInv, TypeOK
<1>a. PICK x \in Msg : x = Head(q)
  BY <1>0
<1>1. q \in Seq(Msg \cup {StopMsg}) /\ q # << >> /\ work[r] = << >> /\ x = Head(q)
  BY <1>a DEF Take, Idle, IInv, TypeOK
<1>2. /\ mailbox' = [mailbox EXCEPT ![r] = Tail(q)]
      /\ work' = [work EXCEPT ![r] = <<DecideFrame(x)>>]
      /\ pre' = IF answer[x] = "tell" THEN pre ELSE [pre EXCEPT ![x] = seqNr[r]]
      /\ UNCHANGED <<stash, seqNr, rows, answer, post, held>>
  BY <1>a DEF Take, entityVars, journalVars
<1>3. q = mailbox[r]
  OBVIOUS
<1> HIDE DEF q
<1>4. Cmds(work[r]) = << >> /\ Cmds(<<DecideFrame(x)>>) = <<x>>
  BY <1>1 DEF Cmds, DecideFrame
<1>5. /\ pre \in [Msg -> Nat] /\ seqNr \in [Runner -> Nat]
      /\ mailbox \in [Runner -> Seq(Msg \cup {StopMsg})]
      /\ work \in [Runner -> Seq(Frame)]
  BY DEF IInv, TypeOK
<1>6. ASSUME NEW m \in Msg, m # x PROVE Track(m)'
  <2>1. Shrinks(q, Tail(q), m)
    BY <1>1, TailShrinks
  <2>2. Shrinks(Cmds(work[r]), Cmds(<<DecideFrame(x)>>), m)
    BY <1>4, <1>6, ShortShrinks
  <2>3. LinesStay(m)
    BY <1>2, <1>3, <2>1, <2>2, OneLineStays DEF LinesStay
  <2>4. pre'[m] = pre[m] /\ \A p \in Runner : seqNr[p] <= seqNr'[p]
    BY <1>2, <1>5, <1>6
  <2>5. Undisturbed(m)
    BY <1>2, <2>3, <2>4 DEF Undisturbed
  <2> QED BY <2>5, UndisturbedKeeps
<1>7. CASE ~IsAsk(x)
  <2>1. answer[x] = "unsent" => Nowhere(x)
    BY <1>1 DEF Track
  <2>2. Queued(x, r)
    BY <1>1, <1>3, TailShrinks DEF Queued
  <2>3. answer'[x] = "tell"
    BY <1>2, <1>7, <2>1, <2>2 DEF IsAsk, Nowhere
  <2> QED BY <1>1, <1>6, <2>3, ToldIsTracked
<1>8. CASE IsAsk(x)
  <2>1. Tracked(x) /\ (answer[x] = "ok" => Nowhere(x))
    BY <1>1, <1>8 DEF Track
  <2>2. Queued(x, r) /\ ~Has(Tail(q), x)
    <3>1. Once(q, x)
      BY <1>3, <2>1 DEF Tracked, InOnePlace
    <3> QED BY <1>1, <1>3, <3>1, TailShrinks DEF Queued
  <2>3. /\ \A p \in Runner : p # r => ~Queued(x, p)
        /\ \A p \in Runner : ~Doing(x, p) /\ ~Stashed(x, p)
        /\ held[x] = -1 /\ Unwritten(x)
    BY <2>1, <2>2 DEF Tracked, InOnePlace, Nowhere
  <2>4. /\ mailbox'[r] = Tail(q) /\ Cmds(work'[r]) = <<x>>
        /\ \A p \in Runner : p # r => mailbox'[p] = mailbox[p] /\ work'[p] = work[p]
        /\ \A p \in Runner : stash'[p] = stash[p]
        /\ pre'[x] = seqNr[r]
    <3>1. work'[r] = <<DecideFrame(x)>>
      BY <1>2, <1>5
    <3>2. pre'[x] = seqNr[r]
      BY <1>1, <1>2, <1>5, <1>8 DEF IsAsk
    <3> QED BY <1>2, <1>4, <1>5, <3>1, <3>2
  <2>5. \A p \in Runner : /\ ~Queued(x, p)' /\ ~Stashed(x, p)'
                          /\ Doing(x, p)' => p = r
    BY <2>2, <2>3, <2>4 DEF Queued, Stashed, Doing
  <2>6. \A p \in Runner : Once(mailbox'[p], x) /\ Once(stash'[p], x)
    BY <2>5 DEF Queued, Stashed, Has, Once
  <2>7. ASSUME NEW p \in Runner PROVE Once(Cmds(work'[p]), x)
    <3>1. p # r => ~Has(Cmds(work'[p]), x)
      BY <2>5 DEF Doing
    <3>2. p # r => Once(Cmds(work'[p]), x)
      BY <3>1 DEF Has, Once
    <3> QED BY <2>4, <3>2, ShortShrinks
  <2>8. held'[x] = -1
    BY <1>2, <2>3
  <2>9. ASSUME NEW p \in Runner, Doing(x, p)' \/ Stashed(x, p)'
        PROVE  Covered(x, seqNr[p])'
    <3>1. p = r
      BY <2>5, <2>9
    <3>2. ASSUME NEW e \in Entity, NEW s \in DOMAIN rows'[e], rows'[e][s] = x PROVE FALSE
      BY <1>2, <2>3, <3>2 DEF Unwritten, Has
    <3>3. pre'[x] <= seqNr'[p]
      BY <1>2, <1>5, <2>4, <3>1
    <3> QED BY <3>2, <3>3 DEF Covered
  <2>10. Tracked(x)'
    BY <2>5, <2>6, <2>7, <2>8, <2>9 DEF Tracked, InOnePlace
  <2>11. answer'[x] # "ok" /\ answer'[x] # "unsent"
    BY <1>2, <1>8, <2>1, <2>2 DEF Nowhere, IsAsk
  <2>12. Track(x)'
    BY <2>10, <2>11 DEF Track
  <2> QED BY <1>6, <2>12
<1> QED BY <1>7, <1>8

\* The command on top of a stack is nowhere else.
LEMMA TopIsAlone ==
    ASSUME IInv, NEW r \in Runner, work[r] # << >>, Top(r).m \in Msg, IsAsk(Top(r).m),
           Track(Top(r).m)
    PROVE  /\ Tracked(Top(r).m) /\ Doing(Top(r).m, r)
           /\ \A q \in Runner : ~Queued(Top(r).m, q) /\ ~Stashed(Top(r).m, q)
           /\ \A q \in Runner : q # r => ~Doing(Top(r).m, q)
           /\ held[Top(r).m] = -1
           /\ answer[Top(r).m] # "ok"
           /\ ~Has(Cmds(Tail(work[r])), Top(r).m)
           /\ Covered(Top(r).m, seqNr[r])
<1> DEFINE x == Top(r).m
<1>1. Tracked(x) /\ Doing(x, r)
  BY StackStays DEF Track
<1>2. Once(Cmds(work[r]), x)
  BY <1>1 DEF Tracked, InOnePlace
<1>3. ~Has(Cmds(Tail(work[r])), x)
  BY <1>2, StackStays
<1> HIDE DEF x
<1>4. /\ \A q \in Runner : ~Queued(x, q) /\ ~Stashed(x, q)
      /\ \A q \in Runner : q # r => ~Doing(x, q)
      /\ held[x] = -1 /\ Covered(x, seqNr[r])
  BY <1>1 DEF Tracked, InOnePlace, Nowhere
<1>5. answer[x] # "ok"
  BY <1>1 DEF Track, Nowhere, x
<1> QED BY <1>1, <1>3, <1>4, <1>5 DEF x

\* A command in the stack is sent: unsent ones are nowhere.
LEMMA TopIsSent ==
    ASSUME IInv, NEW r \in Runner, work[r] # << >>, Top(r).m \in Msg, Track(Top(r).m)
    PROVE  answer[Top(r).m] # "unsent"
BY StackStays DEF Track, Nowhere

\* decide returns Stash: from the stack to the stash.
LEMMA DecideStashKeepsTrack ==
    ASSUME IInv, IInv', \A m \in Msg : Track(m), NEW r \in Runner, DecideStash(r)
    PROVE  \A m \in Msg : Track(m)'
<1> USE RuntimeAssumption
<1> DEFINE s == stash[r]
<1>0. Top(r).m \in Msg /\ work[r] # << >> /\ s \in Seq(Msg)
  BY TopTyped DEF DecideStash, InUserCode, IInv, TypeOK
<1>a. PICK x \in Msg : x = Top(r).m
  BY <1>0
<1>1. work[r] # << >> /\ x \in Msg /\ s \in Seq(Msg)
  BY <1>0
<1>2. /\ stash' = [stash EXCEPT ![r] = Append(s, x)]
      /\ work' = [work EXCEPT ![r] = Tail(work[r])]
      /\ UNCHANGED <<mailbox, seqNr, rows, answer, pre, post, held>>
  BY <1>a DEF DecideStash, Popped, journalVars, askVars
<1>3. /\ stash \in [Runner -> Seq(Msg)] /\ work \in [Runner -> Seq(Frame)]
      /\ seqNr \in [Runner -> Nat]
  BY DEF IInv, TypeOK
<1>4. s = stash[r] /\ x = Top(r).m
  BY <1>a
<1> HIDE DEF s
<1>5. ASSUME NEW m \in Msg, m # x PROVE Track(m)'
  <2>1. Shrinks(s, Append(s, x), m)
    BY <1>1, <1>5, AppendShrinks
  <2>2. WorkStays(m)
    BY <1>1, <1>2, TopStays DEF Popped
  <2>3. LinesStay(m)
    BY <1>2, <1>4, <2>1, <2>2, OneLineStays DEF LinesStay
  <2>4. Undisturbed(m)
    BY <1>2, <2>3, CalmIsUndisturbed
  <2> QED BY <2>4, UndisturbedKeeps
<1>6. CASE ~IsAsk(x)
  <2>1. answer'[x] = "tell"
    BY <1>1, <1>2, <1>4, <1>6, TopIsSent DEF IsAsk
  <2> QED BY <1>1, <1>5, <2>1, ToldIsTracked
<1>7. CASE IsAsk(x)
  <2>1. /\ Tracked(x) /\ Doing(x, r)
        /\ \A q \in Runner : ~Queued(x, q) /\ ~Stashed(x, q)
        /\ \A q \in Runner : q # r => ~Doing(x, q)
        /\ held[x] = -1 /\ answer[x] # "ok"
        /\ ~Has(Cmds(Tail(work[r])), x)
        /\ Covered(x, seqNr[r])
    BY <1>1, <1>4, <1>7, TopIsAlone
  <2>2. /\ work'[r] = Tail(work[r]) /\ stash'[r] = Append(s, x)
        /\ \A p \in Runner : p # r => work'[p] = work[p] /\ stash'[p] = stash[p]
    BY <1>2, <1>3
  <2>3. ~Has(s, x)
    BY <1>4, <2>1 DEF Stashed
  <2>4. Once(Append(s, x), x)
    BY <1>1, <2>3, AppendShrinks
  <2>5. \A p \in Runner : /\ ~Queued(x, p)' /\ ~Doing(x, p)'
                          /\ Stashed(x, p)' => p = r
    BY <1>2, <2>1, <2>2 DEF Queued, Stashed, Doing
  <2>6. \A p \in Runner : Once(mailbox'[p], x) /\ Once(Cmds(work'[p]), x)
    BY <2>5 DEF Queued, Doing, Has, Once
  <2>7. ASSUME NEW p \in Runner PROVE Once(stash'[p], x)
    <3>1. p # r => ~Has(stash'[p], x)
      BY <2>5 DEF Stashed
    <3>2. p # r => Once(stash'[p], x)
      BY <3>1 DEF Has, Once
    <3> QED BY <2>2, <2>4, <3>2
  <2>8. \A p \in Runner : Doing(x, p)' \/ Stashed(x, p)' => Covered(x, seqNr[p])'
    BY <1>2, <2>1, <2>5 DEF Covered
  <2>9. Tracked(x)'
    BY <1>2, <2>1, <2>5, <2>6, <2>7, <2>8 DEF Tracked, InOnePlace
  <2>10. Track(x)'
    BY <1>2, <1>7, <2>1, <2>9 DEF Track, IsAsk
  <2> QED BY <1>5, <2>10
<1> QED BY <1>6, <1>7

\* Unstash: from the stash to the stack, in front of what is there.
LEMMA UnstashKeepsTrack ==
    ASSUME IInv, IInv', \A m \in Msg : Track(m), NEW r \in Runner, Unstash(r)
    PROVE  \A m \in Msg : Track(m)'
<1> USE RuntimeAssumption
<1> DEFINE s == stash[r]
           w == work[r]
           v == Consumed(r)
           c == Cmds(w)
<1>1. /\ w # << >> /\ w \in Seq(Frame) /\ s \in Seq(Msg) /\ v \in Seq(Frame)
  BY ConsumedTyped DEF Unstash, AtChainedEffect, AtEffect, IInv, TypeOK
<1>2. /\ work' = [work EXCEPT ![r] =
                    [i \in 1 .. Len(s) |-> DecideFrame(s[i])] \o v]
      /\ stash' = [stash EXCEPT ![r] = << >>]
      /\ UNCHANGED <<mailbox, seqNr, rows, answer, pre, post, held>>
  BY DEF Unstash, journalVars, askVars
<1>3. Cmds(v) = c
  <2>1. Top(r) \in Frame
    BY <1>1, TopTyped DEF IInv
  <2> DEFINE f == [Top(r) EXCEPT !.left = @ - 1]
  <2>2. f.m = Head(w).m
    BY <2>1, FrameEdits DEF Top
  <2>3. v = <<f>> \o Tail(w)
    BY DEF Consumed
  <2> HIDE DEF f, w, v
  <2>4. Cmds(<<f>> \o Tail(w)) = Cmds(w)
    BY <1>1, <2>2, CmdsOfTop
  <2> QED BY <2>3, <2>4
<1>4. /\ stash \in [Runner -> Seq(Msg)] /\ work \in [Runner -> Seq(Frame)]
      /\ seqNr \in [Runner -> Nat]
  BY DEF IInv, TypeOK
<1>5. s = stash[r] /\ w = work[r] /\ c = Cmds(w)
  OBVIOUS
<1> HIDE DEF s, w, v, c
<1>6. /\ Cmds(work'[r]) = s \o c /\ stash'[r] = << >>
      /\ \A p \in Runner : p # r => work'[p] = work[p] /\ stash'[p] = stash[p]
  <2>1. work'[r] = [i \in 1 .. Len(s) |-> DecideFrame(s[i])] \o v
    BY <1>2, <1>4
  <2>2. Cmds([i \in 1 .. Len(s) |-> DecideFrame(s[i])] \o v) = s \o Cmds(v)
    BY <1>1, CmdsOfUnstashed
  <2> QED BY <1>2, <1>3, <1>4, <2>1, <2>2
<1>7. c \in Seq(Msg \cup {None})
  BY <1>1, <1>5, CmdsTyped
<1>8. ASSUME NEW m \in Msg, ~Stashed(m, r) PROVE Track(m)'
  <2>1. ~Has(s, m)
    BY <1>5, <1>8 DEF Stashed
  <2>2. Shrinks(c, s \o c, m)
    BY <1>1, <1>7, <2>1, ConcatHas
  <2>3. WorkStays(m)
    <3> SUFFICES ASSUME NEW p \in Runner
                 PROVE  Shrinks(Cmds(work[p]), Cmds(work'[p]), m)
      BY DEF WorkStays
    <3> QED BY <1>5, <1>6, <2>2, ShortShrinks
  <2>4. Shrinks(stash[r], << >>, m)
    BY ShortShrinks
  <2>5. LinesStay(m)
    BY <1>2, <2>3, <2>4, OneLineStays DEF LinesStay
  <2>6. Undisturbed(m)
    BY <1>2, <2>5, CalmIsUndisturbed
  <2> QED BY <2>6, UndisturbedKeeps
<1>9. ASSUME NEW x \in Msg, Stashed(x, r), IsAsk(x) PROVE Track(x)'
  <2>1. Tracked(x)
    BY <1>9 DEF Track
  <2>2. /\ \A q \in Runner : ~Queued(x, q) /\ ~Doing(x, q)
        /\ \A q \in Runner : q # r => ~Stashed(x, q)
        /\ held[x] = -1 /\ answer[x] # "ok"
        /\ Covered(x, seqNr[r])
        /\ Once(s, x) /\ ~Has(c, x)
    BY <1>5, <1>9, <2>1 DEF Tracked, InOnePlace, Nowhere, Track, Doing
  <2>3. Once(s \o c, x)
    BY <1>1, <1>7, <2>2, ConcatHas
  <2>4. \A p \in Runner : /\ ~Queued(x, p)' /\ ~Stashed(x, p)'
                          /\ Doing(x, p)' => p = r
    <3>1. ~Has(<< >>, x)
      BY ShortShrinks
    <3> QED BY <1>2, <1>6, <2>2, <3>1 DEF Queued, Stashed, Doing
  <2>5. \A p \in Runner : Once(mailbox'[p], x) /\ Once(stash'[p], x)
    BY <2>4 DEF Queued, Stashed, Has, Once
  <2>6. ASSUME NEW p \in Runner PROVE Once(Cmds(work'[p]), x)
    <3>1. p # r => ~Has(Cmds(work'[p]), x)
      BY <2>4 DEF Doing
    <3>2. p # r => Once(Cmds(work'[p]), x)
      BY <3>1 DEF Has, Once
    <3> QED BY <1>6, <2>3, <3>2
  <2>7. \A p \in Runner : Doing(x, p)' \/ Stashed(x, p)' => Covered(x, seqNr[p])'
    BY <1>2, <2>2, <2>4 DEF Covered
  <2>8. Tracked(x)'
    BY <1>2, <2>2, <2>4, <2>5, <2>6, <2>7 DEF Tracked, InOnePlace
  <2> QED BY <1>2, <1>9, <2>2, <2>8 DEF Track, IsAsk
<1>10. ASSUME NEW x \in Msg, Stashed(x, r), ~IsAsk(x) PROVE Track(x)'
  <2>1. answer'[x] = "tell"
    BY <1>2, <1>10 DEF IsAsk, Track, Nowhere
  <2> QED BY <2>1, ToldIsTracked
<1> QED BY <1>8, <1>9, <1>10

\* The events a batch adds are those of the command on top, with the numbers
\* after the writer's.
LEMMA BatchRows ==
    ASSUME IInv, NEW r \in Runner, NEW k \in Nat,
           Persist(r, k) \/ PersistThenThrow(r, k)
    PROVE  /\ work[r] # << >> /\ Top(r).m \in Msg
           /\ \A e \in Entity : \A s \in DOMAIN rows'[e] :
                 \/ s \in DOMAIN rows[e] /\ rows'[e][s] = rows[e][s]
                 \/ /\ e = home[r] /\ rows'[e][s] = Top(r).m /\ s \in Nat
                    /\ seqNr[r] < s /\ s <= seqNr[r] + k
                    /\ s > Len(rows[e]) /\ k > 0
<1>1. /\ AtChainedEffect(r) /\ status[r] = "live" /\ work[r] # << >>
      /\ Top(r).phase = "effect"
  BY DEF Persist, PersistThenThrow, AtChainedEffect, AtEffect
<1>2. Top(r).m \in Msg
  BY <1>1, TopTyped DEF IInv
<1>3. /\ ~IsDuplicate(rows[home[r]], seqNr[r], k)
      /\ rows' = [rows EXCEPT ![home[r]] = PersistRows(@, seqNr[r], k, Top(r).m)]
  <2>1. CASE Persist(r, k)
    BY <2>1 DEF Persist
  <2>2. CASE PersistThenThrow(r, k)
    BY <2>2 DEF PersistThenThrow
  <2> QED BY <2>1, <2>2
<1> DEFINE evs == Events(Top(r).m, k)
<1>4. /\ home[r] \in Entity
      /\ rows' = [rows EXCEPT ![home[r]] = @ \o evs]
      /\ evs \in Seq(Msg) /\ Len(evs) = k
      /\ k > 0 => seqNr[r] = Len(rows[home[r]])
  BY <1>1, <1>2, <1>3, WriteKeeps
<1>5. \A i \in 1 .. k : evs[i] = Top(r).m
  BY DEF Events
<1> HIDE DEF evs
<1>6. rows \in [Entity -> Seq(Msg)]
  BY DEF IInv, TypeOK
<1>7. ASSUME NEW e \in Entity, NEW s \in DOMAIN rows'[e]
      PROVE  \/ s \in DOMAIN rows[e] /\ rows'[e][s] = rows[e][s]
             \/ /\ e = home[r] /\ rows'[e][s] = Top(r).m /\ s \in Nat
                /\ seqNr[r] < s /\ s <= seqNr[r] + k
                /\ s > Len(rows[e]) /\ k > 0
  <2>1. CASE e # home[r]
    BY <1>4, <1>6, <2>1
  <2>2. CASE e = home[r]
    <3> DEFINE q == rows[e]
               v == q \o evs
    <3>1. rows'[e] = v /\ q \in Seq(Msg)
      BY <1>4, <1>6, <2>2
    <3>2. q = rows[e] /\ Len(q) \in Nat /\ DOMAIN q = 1 .. Len(q)
      BY <3>1
    <3> HIDE DEF q
    <3>3. /\ DOMAIN v = 1 .. (Len(q) + Len(evs))
          /\ \A i \in 1 .. Len(q) + Len(evs) :
                v[i] = IF i <= Len(q) THEN q[i] ELSE evs[i - Len(q)]
      <4>1. v \in Seq(Msg) /\ Len(v) = Len(q) + Len(evs)
        BY <1>4, <3>1, ConcatProperties
      <4>2. \A i \in 1 .. Len(q) + Len(evs) :
                v[i] = IF i <= Len(q) THEN q[i] ELSE evs[i - Len(q)]
        BY <1>4, <3>1, ConcatProperties
      <4> QED BY <4>1, <4>2
    <3> HIDE DEF v
    <3>4. s \in 1 .. (Len(q) + k)
      BY <1>4, <3>1, <3>3
    <3>5. CASE s <= Len(q)
      <4>1. s \in 1 .. Len(q)
        BY <3>2, <3>4, <3>5
      <4>2. v[s] = q[s]
        BY <1>4, <3>3, <3>4, <3>5
      <4> QED BY <3>1, <3>2, <4>1, <4>2
    <3>6. CASE s > Len(q)
      <4>1. s - Len(q) \in 1 .. k /\ k > 0 /\ ~(s <= Len(q)) /\ s \in Nat
        BY <3>2, <3>4, <3>6
      <4>2. v[s] = evs[s - Len(q)]
        BY <1>4, <3>3, <3>4, <4>1
      <4>3. v[s] = Top(r).m
        BY <1>5, <4>1, <4>2
      <4>4. seqNr[r] = Len(q)
        BY <1>4, <2>2, <3>2, <4>1
      <4>5. seqNr[r] < s /\ s <= seqNr[r] + k
        BY <3>2, <3>4, <3>6, <4>4
      <4> QED BY <2>2, <3>1, <3>2, <3>6, <4>1, <4>3, <4>5
    <3> QED BY <3>2, <3>4, <3>5, <3>6
  <2> QED BY <2>1, <2>2
<1> QED BY <1>1, <1>2, <1>7

\* Persist: the writer's number moves over the new events.
LEMMA PersistKeepsTrack ==
    ASSUME IInv, IInv', \A m \in Msg : Track(m), NEW r \in Runner, NEW k \in Nat,
           Persist(r, k)
    PROVE  \A m \in Msg : Track(m)'
<1> USE RuntimeAssumption
<1>1. work[r] # << >> /\ Top(r).m \in Msg
  BY BatchRows
<1>2. /\ work' = [work EXCEPT ![r] = Consumed(r)]
      /\ seqNr' = [seqNr EXCEPT ![r] = @ + k]
      /\ UNCHANGED <<mailbox, stash, answer, pre, post, held>>
  BY DEF Persist, askVars
<1>3. /\ seqNr \in [Runner -> Nat] /\ pre \in [Msg -> Nat]
      /\ \A e \in Entity : rows[e] \in Seq(Msg)
  BY DEF IInv, TypeOK
<1>4. \A p \in Runner : seqNr[p] <= seqNr'[p]
  BY <1>2, <1>3
<1>5. ASSUME NEW m \in Msg PROVE LinesStay(m)
  <2>1. WorkStays(m)
    BY <1>1, <1>2, TopStays
  <2> QED BY <1>2, <2>1, OneLineStays DEF LinesStay
<1>6. ASSUME NEW m \in Msg, m # Top(r).m PROVE Track(m)'
  <2>1. \A e \in Entity : \A s \in DOMAIN rows'[e] :
          rows'[e][s] = m => s \in DOMAIN rows[e] /\ rows[e][s] = m
    BY <1>6, BatchRows
  <2>2. LinesStay(m)
    BY <1>5
  <2>3. Undisturbed(m)
    BY <1>2, <1>4, <2>1, <2>2 DEF Undisturbed
  <2> QED BY <2>3, UndisturbedKeeps
<1>7. ASSUME NEW x \in Msg, x = Top(r).m, ~IsAsk(x) PROVE Track(x)'
  <2>1. answer'[x] = "tell"
    BY <1>1, <1>2, <1>7, TopIsSent DEF IsAsk
  <2> QED BY <2>1, ToldIsTracked
<1>8. ASSUME NEW x \in Msg, x = Top(r).m, IsAsk(x) PROVE Track(x)'
  <2>1. /\ Tracked(x) /\ Doing(x, r)
        /\ \A q \in Runner : ~Queued(x, q) /\ ~Stashed(x, q)
        /\ \A q \in Runner : q # r => ~Doing(x, q)
        /\ held[x] = -1 /\ answer[x] # "ok"
        /\ Covered(x, seqNr[r])
    BY <1>1, <1>8, TopIsAlone
  <2>2. ASSUME NEW p \in Runner
        PROVE  /\ ~Queued(x, p)' /\ ~Stashed(x, p)'
               /\ Doing(x, p)' => p = r
               /\ Once(mailbox'[p], x) /\ Once(Cmds(work'[p]), x) /\ Once(stash'[p], x)
    <3>1. LinesStay(x)
      BY <1>5
    <3>2. Once(mailbox[p], x) /\ Once(Cmds(work[p]), x) /\ Once(stash[p], x)
      BY <2>1 DEF Tracked, InOnePlace
    <3> QED BY <2>1, <3>1, <3>2 DEF LinesStay, MailStays, WorkStays, StashStays, Shrinks,
                                   Queued, Doing, Stashed
  <2>3. InOnePlace(x)'
    BY <1>2, <2>1, <2>2 DEF InOnePlace
  <2>4. Covered(x, seqNr[r])'
    <3>1. pre'[x] <= seqNr'[r] /\ pre[x] <= seqNr[r]
      BY <1>2, <1>3, <2>1 DEF Covered
    <3>2. ASSUME NEW e \in Entity, NEW s \in DOMAIN rows'[e], rows'[e][s] = x
          PROVE  pre'[x] < s /\ s <= seqNr'[r]
      <4>1. CASE s \in DOMAIN rows[e] /\ rows'[e][s] = rows[e][s]
        <5>1. pre[x] < s /\ s <= seqNr[r] /\ s \in Nat
          BY <1>3, <2>1, <3>2, <4>1 DEF Covered
        <5> QED BY <1>2, <1>3, <5>1
      <4>2. CASE s \in Nat /\ seqNr[r] < s /\ s <= seqNr[r] + k
        BY <1>2, <1>3, <3>1, <4>2
      <4> QED BY <3>2, <4>1, <4>2, BatchRows
    <3> QED BY <3>1, <3>2 DEF Covered
  <2>5. Tracked(x)'
    BY <1>2, <2>1, <2>2, <2>3, <2>4 DEF Tracked
  <2> QED BY <1>2, <1>8, <2>1, <2>5 DEF Track, IsAsk
<1> QED BY <1>6, <1>7, <1>8

\* What happens to the command whose frame a step takes from a stack.
LEMMA TakenOffTop ==
    ASSUME IInv, \A m \in Msg : Track(m), NEW r \in Runner, work[r] # << >>,
           NEW x \in Msg, x = Top(r).m, IsAsk(x),
           work' = [work EXCEPT ![r] = Tail(work[r])]
           \/ work' = [work EXCEPT ![r] = << >>],
           UNCHANGED <<mailbox, stash>>
    PROVE  /\ Nowhere(x)'
           /\ held[x] = -1 /\ answer[x] # "ok"
           /\ Covered(x, seqNr[r])
           /\ held'[x] = -1 => Tracked(x)'
           /\ Covered(x, held[x])' => Tracked(x)'
<1>1. /\ Tracked(x) /\ Doing(x, r)
      /\ \A q \in Runner : ~Queued(x, q) /\ ~Stashed(x, q)
      /\ \A q \in Runner : q # r => ~Doing(x, q)
      /\ held[x] = -1 /\ answer[x] # "ok"
      /\ ~Has(Cmds(Tail(work[r])), x)
      /\ Covered(x, seqNr[r])
  BY TopIsAlone
<1>2. work \in [Runner -> Seq(Frame)]
  BY DEF IInv, TypeOK
<1>3. ~Has(Cmds(<< >>), x)
  BY DEF Cmds, Has
<1>4. ASSUME NEW p \in Runner PROVE ~Queued(x, p)' /\ ~Doing(x, p)' /\ ~Stashed(x, p)'
  <2>1. p = r => work'[p] = Tail(work[r]) \/ work'[p] = << >>
    BY <1>2
  <2>2. p # r => work'[p] = work[p]
    BY <1>2
  <2> QED BY <1>1, <1>3, <2>1, <2>2 DEF Queued, Doing, Stashed
<1>5. Nowhere(x)'
  BY <1>4 DEF Nowhere
<1>6. InOnePlace(x)'
  <2>1. \A p \in Runner :
          Once(mailbox'[p], x) /\ Once(Cmds(work'[p]), x) /\ Once(stash'[p], x)
    BY <1>4 DEF Queued, Doing, Stashed, Has, Once
  <2> QED BY <1>4, <1>5, <2>1 DEF InOnePlace
<1> QED BY <1>1, <1>4, <1>5, <1>6 DEF Tracked

\* The write succeeds and the runner crashes: nobody holds the command any more.
LEMMA PersistThenThrowKeepsTrack ==
    ASSUME IInv, IInv', \A m \in Msg : Track(m), NEW r \in Runner, NEW k \in Nat,
           PersistThenThrow(r, k)
    PROVE  \A m \in Msg : Track(m)'
<1> USE RuntimeAssumption
<1>1. work[r] # << >> /\ Top(r).m \in Msg
  BY BatchRows
<1>2. /\ work' = [work EXCEPT ![r] = << >>] /\ Crash(r)
      /\ UNCHANGED <<mailbox, stash, seqNr, pre, post, held>>
  BY DEF PersistThenThrow, Crash, entityVars
<1>3. /\ seqNr \in [Runner -> Nat] /\ answer \in [Msg -> Outcome]
  BY DEF IInv, TypeOK
<1>4. \A p \in Runner : seqNr[p] <= seqNr'[p]
  BY <1>2, <1>3
<1>5. ASSUME NEW m \in Msg
      PROVE  \/ answer'[m] = answer[m]
             \/ answer[m] = "pending" /\ answer'[m] \in {"failed", "timeout"}
  BY <1>1, <1>2, CrashIsCalm
<1>6. ASSUME NEW m \in Msg, m # Top(r).m PROVE Track(m)'
  <2>1. \A e \in Entity : \A s \in DOMAIN rows'[e] :
          rows'[e][s] = m => s \in DOMAIN rows[e] /\ rows[e][s] = m
    BY <1>6, BatchRows
  <2>2. WorkStays(m)
    BY <1>1, <1>2, TopStays
  <2>3. LinesStay(m)
    BY <1>2, <2>2, OneLineStays DEF LinesStay
  <2>4. Undisturbed(m)
    BY <1>2, <1>4, <1>5, <2>1, <2>3 DEF Undisturbed
  <2> QED BY <2>4, UndisturbedKeeps
<1>7. ASSUME NEW x \in Msg, x = Top(r).m, ~IsAsk(x) PROVE Track(x)'
  <2>1. answer[x] = "tell"
    BY <1>1, <1>7, TopIsSent DEF IsAsk
  <2>2. answer'[x] = "tell"
    BY <1>5, <2>1
  <2> QED BY <2>2, ToldIsTracked
<1>8. ASSUME NEW x \in Msg, x = Top(r).m, IsAsk(x) PROVE Track(x)'
  <2>1. held[x] = -1 /\ answer[x] # "ok" /\ (held'[x] = -1 => Tracked(x)')
    BY <1>1, <1>2, <1>8, TakenOffTop
  <2>2. answer'[x] # "ok" /\ answer'[x] # "unsent"
    BY <1>5, <1>8, <2>1 DEF IsAsk
  <2> QED BY <1>2, <2>1, <2>2 DEF Track
<1> QED BY <1>6, <1>7, <1>8

\* Reply: the answer carries a number that covers the command's events.
LEMMA ReplyKeepsTrack ==
    ASSUME IInv, IInv', \A m \in Msg : Track(m), NEW r \in Runner, Reply(r)
    PROVE  \A m \in Msg : Track(m)'
<1> USE RuntimeAssumption
<1>1. work[r] # << >> /\ Top(r).m \in Msg
  BY TopTyped DEF Reply, AtEffect, IInv
<1>2. /\ work' = [work EXCEPT ![r] = Tail(work[r])]
      /\ answer' = Settle(Top(r).m, "ok") /\ post' = SettleAt(Top(r).m, seqNr[r])
      /\ UNCHANGED <<mailbox, stash, seqNr, rows, pre, held>>
  BY DEF Reply, Popped, entityVars, journalVars
<1>3. /\ seqNr \in [Runner -> Nat] /\ answer \in [Msg -> Outcome]
      /\ post \in [Msg -> Nat]
  BY DEF IInv, TypeOK
<1>4. \A p \in Runner : seqNr[p] <= seqNr'[p]
  BY <1>2, <1>3
<1>5. ASSUME NEW m \in Msg, m # Top(r).m PROVE Track(m)'
  <2>1. answer'[m] = answer[m] /\ post'[m] = post[m]
    BY <1>2, <1>3, <1>5 DEF Settle, SettleAt
  <2>2. WorkStays(m)
    BY <1>1, <1>2, TopStays DEF Popped
  <2>3. LinesStay(m)
    BY <1>2, <2>2, OneLineStays DEF LinesStay
  <2>4. Undisturbed(m)
    BY <1>2, <1>4, <2>1, <2>3 DEF Undisturbed
  <2> QED BY <2>4, UndisturbedKeeps
<1>6. ASSUME NEW x \in Msg, x = Top(r).m, ~IsAsk(x) PROVE Track(x)'
  <2>1. answer[x] = "tell"
    BY <1>1, <1>6, TopIsSent DEF IsAsk
  <2>2. answer'[x] = "tell"
    BY <1>2, <1>6, <2>1 DEF Settle
  <2> QED BY <2>2, ToldIsTracked
<1>7. ASSUME NEW x \in Msg, x = Top(r).m, IsAsk(x) PROVE Track(x)'
  <2>1. /\ Nowhere(x)' /\ held[x] = -1 /\ answer[x] # "ok" /\ Covered(x, seqNr[r])
        /\ held'[x] = -1 => Tracked(x)'
    BY <1>1, <1>2, <1>7, TakenOffTop
  <2>2. CASE answer[x] = "pending"
    <3>1. answer'[x] = "ok" /\ post'[x] = seqNr[r]
      BY <1>2, <1>3, <1>7, <2>2 DEF Settle, SettleAt
    <3>2. Covered(x, post[x])'
      BY <1>2, <2>1, <3>1 DEF Covered
    <3> QED BY <1>2, <2>1, <3>1, <3>2 DEF Track
  <2>3. CASE answer[x] # "pending"
    <3>1. answer' = answer
      BY <1>2, <1>7, <2>3 DEF Settle
    <3> QED BY <1>2, <1>7, <2>1, <3>1 DEF Track, IsAsk
  <2> QED BY <2>2, <2>3
<1> QED BY <1>5, <1>6, <1>7

\* ReplyDeferred: the handle is kept with a number that covers the events.
LEMMA ReplyDeferredKeepsTrack ==
    ASSUME IInv, IInv', \A m \in Msg : Track(m), NEW r \in Runner, ReplyDeferred(r)
    PROVE  \A m \in Msg : Track(m)'
<1> USE RuntimeAssumption
<1>1. work[r] # << >> /\ Top(r).m \in Msg
  BY TopTyped DEF ReplyDeferred, AtEffect, IInv
<1>2. /\ work' = [work EXCEPT ![r] = Tail(work[r])]
      /\ held' = IF answer[Top(r).m] = "tell" THEN held
                 ELSE [held EXCEPT ![Top(r).m] = seqNr[r]]
      /\ UNCHANGED <<mailbox, stash, seqNr, rows, answer, pre, post>>
  BY DEF ReplyDeferred, Popped, entityVars, journalVars
<1>3. seqNr \in [Runner -> Nat] /\ held \in [Msg -> Nat \cup {-1}]
  BY DEF IInv, TypeOK
<1>4. \A p \in Runner : seqNr[p] <= seqNr'[p]
  BY <1>2, <1>3
<1>5. ASSUME NEW m \in Msg, m # Top(r).m PROVE Track(m)'
  <2>1. held'[m] = held[m]
    BY <1>2, <1>3, <1>5
  <2>2. WorkStays(m)
    BY <1>1, <1>2, TopStays DEF Popped
  <2>3. LinesStay(m)
    BY <1>2, <2>2, OneLineStays DEF LinesStay
  <2>4. Undisturbed(m)
    BY <1>2, <1>4, <2>1, <2>3 DEF Undisturbed
  <2> QED BY <2>4, UndisturbedKeeps
<1>6. ASSUME NEW x \in Msg, x = Top(r).m, ~IsAsk(x) PROVE Track(x)'
  <2>1. answer'[x] = "tell"
    BY <1>1, <1>2, <1>6, TopIsSent DEF IsAsk
  <2> QED BY <2>1, ToldIsTracked
<1>7. ASSUME NEW x \in Msg, x = Top(r).m, IsAsk(x) PROVE Track(x)'
  <2>1. /\ answer[x] # "ok" /\ Covered(x, seqNr[r])
        /\ Covered(x, held[x])' => Tracked(x)'
    BY <1>1, <1>2, <1>7, TakenOffTop
  <2>2. held'[x] = seqNr[r]
    BY <1>1, <1>2, <1>3, <1>7 DEF IsAsk
  <2>3. Covered(x, held[x])'
    BY <1>2, <2>1, <2>2 DEF Covered
  <2> QED BY <1>2, <1>7, <2>1, <2>3 DEF Track, IsAsk
<1> QED BY <1>5, <1>6, <1>7

\* The holder of a deferred reply settles it.
LEMMA CompleteDeferredKeepsTrack ==
    ASSUME IInv, IInv', \A m \in Msg : Track(m), NEW x \in Msg, CompleteDeferred(x)
    PROVE  \A m \in Msg : Track(m)'
<1> USE RuntimeAssumption
<1>1. /\ held[x] # -1 /\ held' = [held EXCEPT ![x] = -1]
      /\ UNCHANGED <<mailbox, work, stash, seqNr, rows, pre>>
      /\ \/ answer' = Settle(x, "ok") /\ post' = SettleAt(x, held[x])
         \/ answer' = Settle(x, "timeout") /\ UNCHANGED post
  BY DEF CompleteDeferred, runnerVars, entityVars, journalVars
<1>2. /\ held \in [Msg -> Nat \cup {-1}] /\ answer \in [Msg -> Outcome]
      /\ post \in [Msg -> Nat] /\ seqNr \in [Runner -> Nat]
  BY DEF IInv, TypeOK
<1>3. ASSUME NEW m \in Msg PROVE LinesStay(m)
  BY <1>1, ShortShrinks DEF LinesStay, MailStays, WorkStays, StashStays
<1>4. \A p \in Runner : seqNr[p] <= seqNr'[p]
  BY <1>1, <1>2
<1>5. ASSUME NEW m \in Msg, \/ answer'[m] = answer[m] /\ post'[m] = post[m]
                            \/ answer[m] = "pending" /\ answer'[m] = "timeout"
      PROVE  Track(m)'
  <2>1. held'[m] \in {held[m], -1} /\ LinesStay(m)
    BY <1>1, <1>2, <1>3
  <2>2. Undisturbed(m)
    BY <1>1, <1>4, <1>5, <2>1 DEF Undisturbed
  <2> QED BY <2>2, UndisturbedKeeps
<1>6. CASE answer' = Settle(x, "timeout") /\ UNCHANGED post
  BY <1>2, <1>5, <1>6 DEF Settle
<1>7. CASE answer' = Settle(x, "ok") /\ post' = SettleAt(x, held[x])
  <2>1. ASSUME NEW m \in Msg, m # x \/ answer[x] # "pending" PROVE Track(m)'
    BY <1>2, <1>5, <1>7, <2>1 DEF Settle, SettleAt
  <2>2. CASE answer[x] = "pending"
    <3>1. Tracked(x)
      BY <2>2 DEF Track, IsAsk
    <3>2. Nowhere(x) /\ Covered(x, held[x])
      BY <1>1, <3>1 DEF Tracked, InOnePlace
    <3>3. answer'[x] = "ok" /\ post'[x] = held[x] /\ held'[x] = -1
      BY <1>1, <1>2, <1>7, <2>2 DEF Settle, SettleAt
    <3>4. Nowhere(x)' /\ Covered(x, post[x])'
      BY <1>1, <3>2, <3>3 DEF Nowhere, Queued, Doing, Stashed, Covered
    <3>5. InOnePlace(x)'
      BY <1>1, <3>1, <3>3 DEF Tracked, InOnePlace, Queued, Doing, Stashed
    <3>6. Tracked(x)'
      BY <3>3, <3>4, <3>5 DEF Tracked, Nowhere
    <3>7. Track(x)'
      BY <3>3, <3>4, <3>6 DEF Track
    <3> QED BY <2>1, <3>7
  <2> QED BY <2>1, <2>2
<1> QED BY <1>1, <1>6, <1>7

\* ask() from user code: the caller's frame waits, for the same command.
LEMMA CtxAskKeepsTrack ==
    ASSUME IInv, IInv', \A m \in Msg : Track(m), NEW r \in Runner, NEW e \in Entity,
           NEW x \in Msg, CtxAsk(r, e, x)
    PROVE  \A m \in Msg : Track(m)'
<1> DEFINE f == [Top(r) EXCEPT !.on = x]
           w == [work EXCEPT ![r] = <<f>> \o Tail(@)]
<1>1. /\ work[r] # << >> /\ SentAsk(x) /\ Deliver(e, x, w)
      /\ UNCHANGED <<rows, pre, post, held>>
  BY DEF CtxAsk, InUserCode, journalVars
<1>2. Top(r) \in Frame /\ work \in [Runner -> Seq(Frame)]
  BY <1>1, TopTyped DEF IInv, TypeOK
<1>3. f \in Frame /\ f.m = Top(r).m
  BY <1>2, FrameEdits DEF Frame, CommandFrame, RecoveryFrame
<1> HIDE DEF f
<1>4. <<f>> \o Tail(work[r]) \in Seq(Frame)
  BY <1>1, <1>3, PushTyped DEF IInv
<1>5. Cmds(<<f>> \o Tail(work[r])) = Cmds(work[r])
  <2> DEFINE v == work[r]
  <2>1. v \in Seq(Frame) /\ v # << >> /\ f.m = Head(v).m
    BY <1>1, <1>2, <1>3 DEF Top
  <2> HIDE DEF v
  <2>2. Cmds(<<f>> \o Tail(v)) = Cmds(v)
    BY <2>1, CmdsOfTop
  <2> QED BY <2>2 DEF v
<1>6. w \in [Runner -> Seq(Frame)]
  BY <1>2, <1>4
<1>7. ASSUME NEW q \in Runner PROVE Cmds(w[q]) = Cmds(work[q])
  BY <1>2, <1>5
<1> HIDE DEF w
<1> QED BY <1>1, <1>6, <1>7, SendKeepsTrack

\* The inductive invariant of the answers.
AnswerInv == IInv /\ Told /\ \A m \in Msg : Track(m)

\* Every step keeps track of every command.
LEMMA NextKeepsTrack ==
    ASSUME AnswerInv, IInv', [Next]_vars
    PROVE  \A m \in Msg : Track(m)'
<1> USE RuntimeAssumption
<1>0. IInv /\ \A m \in Msg : Track(m)
  BY DEF AnswerInv
<1> DEFINE Kept == \A m \in Msg : Track(m)'
<1>a. (\A m \in Msg : Undisturbed(m)) => Kept
  BY <1>0, UndisturbedKeeps
<1> HIDE DEF Kept
<1>1. ASSUME NEW r \in Runner, RunnerStep(r) PROVE Kept
  <2>1. ASSUME NEW k \in 0 .. MaxBatch, Persist(r, k) \/ PersistThenThrow(r, k)
        PROVE  Kept
    <3>1. k \in Nat
      OBVIOUS
    <3> QED BY <1>0, <2>1, <3>1, PersistKeepsTrack, PersistThenThrowKeepsTrack
            DEF Kept
  <2>2. ASSUME \/ TakeStop(r) \/ Terminate(r) \/ AskReturns(r) \/ UserCodeReturns(r)
               \/ Throw(r) \/ Run(r) \/ Snapshot(r) \/ Stop(r) \/ StashInChain(r)
               \/ \E k \in 0 .. MaxBatch : PersistDuplicate(r, k)
        PROVE  Kept
    BY <1>0, <1>a, <2>2, RunnerUndisturbed
  <2>3. Take(r) \/ DecideStash(r) \/ Unstash(r) => Kept
    BY <1>0, TakeKeepsTrack, DecideStashKeepsTrack, UnstashKeepsTrack DEF Kept
  <2>4. Reply(r) \/ ReplyDeferred(r) => Kept
    BY <1>0, ReplyKeepsTrack, ReplyDeferredKeepsTrack DEF Kept
  <2> QED BY <1>1, <2>1, <2>2, <2>3, <2>4 DEF RunnerStep
<1>2. ASSUME NEW e \in Entity, NEW x \in Msg, Deliver(e, x, work),
             SentTell(x) \/ SentAsk(x), UNCHANGED <<rows, pre, post, held>>
      PROVE  Kept
  <2>1. work \in [Runner -> Seq(Frame)]
    BY <1>0 DEF IInv, TypeOK
  <2> QED BY <1>0, <1>2, <2>1, SendKeepsTrack DEF Kept
<1>3. ASSUME NEW r \in Runner, NEW x \in Msg,
             UNCHANGED mailbox \/ mailbox' = [mailbox EXCEPT ![r] = Append(@, x)],
             UNCHANGED <<work, stash, seqNr, rows, pre, post, held>>,
             SentTell(x) \/ (answer[x] = "tell" /\ UNCHANGED answer)
      PROVE  Kept
  BY <1>0, <1>3, TellKeepsTrack DEF Kept
<1>4. ASSUME NEW r \in Runner, ControlStep(r) PROVE Kept
  <2>1. ASSUME NEW e \in Entity, NEW m \in Msg, CtxTell(r, e, m) PROVE Kept
    BY <1>2, <2>1 DEF CtxTell, journalVars
  <2>2. ASSUME NEW e \in Entity, NEW m \in Msg, CtxAsk(r, e, m) PROVE Kept
    BY <1>0, <2>2, CtxAskKeepsTrack DEF Kept
  <2>3. ASSUME NEW m \in Msg, TellSelf(r, m) \/ Sync(r, m) PROVE Kept
    BY <1>3, <2>3 DEF TellSelf, Sync, runnerVars, entityVars, journalVars
  <2>4. ASSUME NEW t \in TimerId, CancelTimer(r, t) PROVE Kept
    BY <1>0, <1>a, <2>4, OthersUndisturbed
  <2>5. ASSUME NEW t \in TimerId, NEW m \in Msg, NEW p \in BOOLEAN,
               Schedule(r, t, m, p)
        PROVE  Kept
    BY <1>3, <2>5 DEF Schedule, runnerVars, entityVars, journalVars
  <2> QED BY <1>4, <2>1, <2>2, <2>3, <2>4, <2>5 DEF ControlStep
<1>5. ASSUME Environment PROVE Kept
  <2>1. ASSUME NEW e \in Entity, NEW m \in Msg, ClientTell(e, m) \/ ClientAsk(e, m)
        PROVE  Kept
    BY <1>2, <2>1 DEF ClientTell, ClientAsk, journalVars
  <2>2. ASSUME NEW m \in Msg, AskTimeout(m) PROVE Kept
    BY <1>0, <1>a, <2>2, OthersUndisturbed
  <2>3. ASSUME NEW m \in Msg, CompleteDeferred(m) PROVE Kept
    BY <1>0, <2>3, CompleteDeferredKeepsTrack DEF Kept
  <2>4. ASSUME NEW r \in Runner, NEW t \in TimerId, TimerFires(r, t) PROVE Kept
    <3>1. timers[r][t] # None /\ timers[r][t].m \in Msg
      BY <1>0, <2>4 DEF TimerFires, IInv, TypeOK, Timer
    <3>2. answer[timers[r][t].m] = "tell"
      BY <3>1 DEF AnswerInv, Told
    <3> QED BY <1>3, <2>4, <3>1, <3>2 DEF TimerFires, entityVars, journalVars, askVars
  <2>5. ASSUME NEW r \in Runner, NEW m \in Msg, SyncSettles(r, m) PROVE Kept
    <3>1. answer[m] = "tell"
      BY <2>5 DEF SyncSettles, AnswerInv, Told
    <3> QED BY <1>3, <2>5, <3>1 DEF SyncSettles, entityVars, journalVars, askVars
  <2> QED BY <1>5, <2>1, <2>2, <2>3, <2>4, <2>5 DEF Environment
<1>6. ShutdownBegin \/ ShutdownEnd \/ UNCHANGED vars => Kept
  BY <1>0, <1>a, OthersUndisturbed
<1> QED BY <1>1, <1>4, <1>5, <1>6 DEF Next, Kept

\* Told commands stay told: the part of DeadStepKeeps that needs no mailbox.
LEMMA NextKeepsTold ==
    ASSUME IInv, Told, [Next]_vars
    PROVE  Told'
<1>1. AnswersAdvance /\ TellersStep
  BY NextAdvancesAnswers, NextKeepsTellers
<1>2. ASSUME NEW r \in Runner, NEW t \in TimerId, timers'[r][t] # None
      PROVE  answer'[timers'[r][t].m] = "tell"
  <2>1. timers[r][t] # None => timers[r][t].m \in Msg
    BY DEF IInv, TypeOK, Timer
  <2>2. timers[r][t] # None => answer'[timers[r][t].m] = "tell"
    BY <1>1, <2>1 DEF Told, AnswersAdvance, Settled
  <2> QED BY <1>1, <1>2, <2>2 DEF TellersStep
<1>3. ASSUME NEW p \in syncs' PROVE answer'[p[2]] = "tell"
  <2>1. CASE p \in syncs
    <3>1. p[2] \in Msg /\ answer[p[2]] = "tell"
      BY <2>1 DEF IInv, TypeOK, Told
    <3> QED BY <1>1, <3>1 DEF AnswersAdvance, Settled
  <2> QED BY <1>1, <2>1 DEF TellersStep
<1> QED BY <1>2, <1>3 DEF Told

-----------------------------------------------------------------------------
(* What observers see.                                                      *)

\* A step hands observers the events it stores, after all earlier ones.
LEMMA NextKeepsPublished ==
    ASSUME IInv, PublishedInOrder, [Next]_vars
    PROVE  PublishedInOrder'
<1> USE RuntimeAssumption
<1>1. /\ published \in [Entity -> Seq([seq : Nat, ev : Msg])]
      /\ rows \in [Entity -> Seq(Msg)]
  BY DEF IInv, TypeOK
<1>2. NothingLost \/ UNCHANGED rows
  BY StepLosesNothing
<1>3. ASSUME NEW e \in Entity, NEW s \in DOMAIN rows[e]
      PROVE  s \in DOMAIN rows'[e] /\ rows'[e][s] = rows[e][s]
  BY <1>2 DEF NothingLost
<1>4. ASSUME UNCHANGED published PROVE PublishedInOrder'
  BY <1>3, <1>4 DEF PublishedInOrder
<1>5. ASSUME NEW r \in Runner, NEW k \in 0 .. MaxBatch, Persist(r, k)
      PROVE  PublishedInOrder'
  <2>1. k \in Nat
    OBVIOUS
  <2> DEFINE h   == home[r]
             x   == Top(r).m
             q   == published[h]
             new == Records(seqNr[r], x, k)
  <2>2. status[r] = "live" /\ h \in Entity /\ Wrote(r, k) /\ seqNr[r] \in Nat
        /\ x \in Msg
    BY <1>5, <2>1, BatchIsWritten, BatchRows DEF IInv, TypeOK
  <2>3. /\ AtChainedEffect(r) /\ ~IsDuplicate(rows[h], seqNr[r], k)
        /\ rows' = [rows EXCEPT ![h] = PersistRows(@, seqNr[r], k, x)]
        /\ published' = [published EXCEPT ![h] = @ \o new]
    BY <1>5 DEF Persist
  <2>4. k > 0 => seqNr[r] = Len(rows[h])
    BY <2>1, <2>2, <2>3, WriteKeeps
  <2>5. rows'[h] = [s \in DOMAIN rows[h] \cup BatchSlots(seqNr[r], k) |->
                      IF s \in BatchSlots(seqNr[r], k) THEN x ELSE rows[h][s]]
    BY <1>1, <2>2, <2>3 DEF PersistRows
  <2>6. ASSUME NEW i \in 1 .. k
        PROVE  /\ seqNr[r] + i \in DOMAIN rows'[h] /\ rows'[h][seqNr[r] + i] = x
               /\ seqNr[r] + i > Len(rows[h])
    <3>1. seqNr[r] + i \in BatchSlots(seqNr[r], k)
      BY <2>1, <2>2 DEF BatchSlots
    <3>2. seqNr[r] + i > Len(rows[h])
      BY <2>1, <2>2, <2>4
    <3> QED BY <2>5, <3>1, <3>2
  <2>7. /\ q \in Seq([seq : Nat, ev : Msg]) /\ Len(q) \in Nat /\ DOMAIN q = 1 .. Len(q)
        /\ new \in Seq([seq : Nat, ev : Msg]) /\ Len(new) = k
        /\ \A i \in 1 .. k : new[i].seq = seqNr[r] + i /\ new[i].ev = x
    <3>1. q \in Seq([seq : Nat, ev : Msg])
      BY <1>1, <2>2
    <3>2. new = [i \in 1 .. k |-> [seq |-> seqNr[r] + i, ev |-> x]]
      BY DEF Records
    <3> HIDE DEF h, x, q, new
    <3>3. Len(q) \in Nat /\ DOMAIN q = 1 .. Len(q)
      BY <3>1
    <3>4. new \in Seq([seq : Nat, ev : Msg]) /\ Len(new) = k
      BY <2>1, <2>2, <3>2
    <3>5. \A i \in 1 .. k : new[i].seq = seqNr[r] + i /\ new[i].ev = x
      BY <3>2
    <3> QED BY <3>1, <3>3, <3>4, <3>5
  <2>8. published'[h] = q \o new /\ \A d \in Entity : d # h => published'[d] = published[d]
    BY <1>1, <2>2, <2>3
  <2> DEFINE R == [seq : Nat, ev : Msg]
             v == q \o new
  <2>9. q = published[h] /\ q \in Seq(R) /\ new \in Seq(R)
    BY <2>7
  <2> HIDE DEF h, x, q, new, R
  <2>10. /\ DOMAIN v = 1 .. (Len(q) + k)
         /\ \A i \in 1 .. Len(q) + k :
               v[i] = IF i <= Len(q) THEN q[i] ELSE new[i - Len(q)]
    <3>1. v \in Seq(R) /\ Len(v) = Len(q) + Len(new)
      BY <2>9, ConcatProperties
    <3>2. \A i \in 1 .. Len(q) + Len(new) :
             v[i] = IF i <= Len(q) THEN q[i] ELSE new[i - Len(q)]
      BY <2>9, ConcatProperties
    <3> QED BY <2>7, <3>1, <3>2
  <2> HIDE DEF v
  <2>11. ASSUME NEW i \in DOMAIN v
         PROVE  \/ /\ i \in 1 .. Len(q) /\ v[i] = q[i]
                   /\ v[i].seq \in DOMAIN rows[h] /\ v[i].ev = rows[h][v[i].seq]
                \/ /\ i > Len(q) /\ i - Len(q) \in 1 .. k
                   /\ v[i].seq = seqNr[r] + (i - Len(q)) /\ v[i].ev = x
    <3>1. i \in 1 .. (Len(q) + k)
      BY <2>10
    <3>2. CASE i <= Len(q)
      <4>1. i \in 1 .. Len(q) /\ v[i] = q[i]
        BY <2>7, <2>10, <3>1, <3>2
      <4>2. q[i].seq \in DOMAIN rows[h] /\ q[i].ev = rows[h][q[i].seq]
        BY <2>2, <2>7, <2>9, <4>1 DEF PublishedInOrder
      <4> QED BY <4>1, <4>2
    <3>3. CASE i > Len(q)
      <4>1. i - Len(q) \in 1 .. k /\ ~(i <= Len(q))
        BY <2>1, <2>7, <3>1, <3>3
      <4>2. v[i] = new[i - Len(q)]
        BY <2>10, <3>1, <4>1
      <4> QED BY <2>7, <3>3, <4>1, <4>2
    <3> QED BY <2>7, <3>1, <3>2, <3>3
  <2>12. ASSUME NEW i \in DOMAIN v
         PROVE  v[i].seq \in DOMAIN rows'[h] /\ v[i].ev = rows'[h][v[i].seq]
    BY <1>3, <2>2, <2>6, <2>11
  <2>13. ASSUME NEW i \in DOMAIN v, NEW j \in DOMAIN v, i < j
         PROVE  v[i].seq < v[j].seq
    <3>1. CASE j \in 1 .. Len(q) /\ v[j] = q[j]
      <4>1. i \in 1 .. Len(q) /\ v[i] = q[i]
        BY <2>7, <2>10, <2>11, <2>13, <3>1
      <4>2. q[i].seq < q[j].seq
        BY <2>2, <2>7, <2>9, <2>13, <3>1, <4>1 DEF PublishedInOrder
      <4> QED BY <3>1, <4>1, <4>2
    <3>2. CASE j - Len(q) \in 1 .. k /\ v[j].seq = seqNr[r] + (j - Len(q))
      <4>1. v[j].seq > Len(rows[h]) /\ v[j].seq \in Nat
        BY <2>2, <2>6, <3>2
      <4>2. CASE v[i].seq \in DOMAIN rows[h]
        <5>1. v[i].seq \in 1 .. Len(rows[h]) /\ Len(rows[h]) \in Nat
          BY <1>1, <2>2, <4>2
        <5> QED BY <4>1, <5>1
      <4>3. CASE v[i].seq = seqNr[r] + (i - Len(q)) /\ i - Len(q) \in 1 .. k
        <5>1. i \in Nat /\ j \in Nat
          BY <2>1, <2>7, <2>10
        <5> QED BY <2>2, <2>7, <2>13, <3>2, <4>3, <5>1
      <4> QED BY <2>11, <4>2, <4>3
    <3> QED BY <2>11, <3>1, <3>2
  <2>14. ASSUME NEW d \in Entity
         PROVE  /\ \A i \in DOMAIN published'[d] :
                      /\ published'[d][i].seq \in DOMAIN rows'[d]
                      /\ published'[d][i].ev = rows'[d][published'[d][i].seq]
                /\ \A i, j \in DOMAIN published'[d] :
                      i < j => published'[d][i].seq < published'[d][j].seq
    <3>1. CASE d = h
      <4>1. published'[d] = v
        BY <2>8, <3>1 DEF v
      <4> QED BY <2>12, <2>13, <3>1, <4>1
    <3>2. CASE d # h
      <4>1. published'[d] = published[d]
        BY <2>8, <3>2
      <4> QED BY <1>3, <4>1 DEF PublishedInOrder
    <3> QED BY <3>1, <3>2
  <2> QED BY <2>14 DEF PublishedInOrder
<1>6. ASSUME NEW r \in Runner, RunnerStep(r)
      PROVE  UNCHANGED published \/ \E k \in 0 .. MaxBatch : Persist(r, k)
  BY <1>6 DEF RunnerStep, Take, TakeStop, Terminate, AskReturns, UserCodeReturns,
              DecideStash, Throw, PersistDuplicate, PersistThenThrow, Run, Reply,
              ReplyDeferred, Snapshot, Stop, StashInChain, Unstash, journalVars
<1>7. ASSUME NEW r \in Runner, ControlStep(r) PROVE UNCHANGED published
  BY <1>7 DEF ControlStep, TellSelf, Sync, CtxTell, CtxAsk, Schedule, CancelTimer,
              journalVars
<1>8. ASSUME Environment PROVE UNCHANGED published
  BY <1>8 DEF Environment, TimerFires, SyncSettles, ClientTell, ClientAsk,
              AskTimeout, CompleteDeferred, journalVars
<1>9. ShutdownBegin \/ ShutdownEnd \/ UNCHANGED vars => UNCHANGED published
  BY DEF ShutdownBegin, ShutdownEnd, vars, journalVars
<1> QED BY <1>4, <1>5, <1>6, <1>7, <1>8, <1>9 DEF Next

\* What leaves a runner agrees with the journal: a positive answer carries
\* numbers that enclose exactly where the command's events are stored, whatever
\* was stashed, deferred, retried by timers or lost in crashes around it, and
\* observers see stored events only, once and in order.
THEOREM OutputIsTheJournal == Spec => []OutputFollowsJournal
<1> DEFINE I == AnswerInv /\ PublishedInOrder
<1>1. Init => I
  <2> SUFFICES ASSUME Init PROVE Told /\ (\A m \in Msg : Track(m)) /\ PublishedInOrder
    BY InitIInv DEF AnswerInv
  <2>1. Told /\ PublishedInOrder
    BY DEF Init, Told, PublishedInOrder
  <2>2. ASSUME NEW m \in Msg PROVE Track(m)
    <3>1. answer[m] = "unsent" /\ held[m] = -1
      BY DEF Init
    <3>2. Nowhere(m)
      <4>1. Cmds(<< >>) = << >>
        BY DEF Cmds
      <4>2. ~Has(<< >>, m)
        BY ShortShrinks
      <4> QED BY <4>1, <4>2 DEF Init, Nowhere, Queued, Doing, Stashed
    <3>3. Unwritten(m)
      BY DEF Init, NoRows, Unwritten, Has
    <3> QED BY <3>1, <3>2, <3>3 DEF Track, IsAsk
  <2> QED BY <2>1, <2>2
<1>2. I /\ [Next]_vars => I'
  <2> SUFFICES ASSUME AnswerInv, PublishedInOrder, [Next]_vars
               PROVE  AnswerInv' /\ PublishedInOrder'
    OBVIOUS
  <2>1. IInv'
    BY NextKeeps DEF AnswerInv
  <2>2. Told'
    BY NextKeepsTold DEF AnswerInv
  <2>3. \A m \in Msg : Track(m)'
    BY <2>1, NextKeepsTrack
  <2>4. PublishedInOrder'
    BY NextKeepsPublished DEF AnswerInv
  <2> QED BY <2>1, <2>2, <2>3, <2>4 DEF AnswerInv
<1>3. I => OutputFollowsJournal
  BY DEF AnswerInv, Track, Covered, OutputFollowsJournal, AnswerCoversEvents
<1> QED BY <1>1, <1>2, <1>3, PTL DEF Spec
=============================================================================
