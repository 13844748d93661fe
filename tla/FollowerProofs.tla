---------------------------- MODULE FollowerProofs ----------------------------
(***************************************************************************)
(* Proofs about what follows the journal: the tails of both journals, the  *)
(* projections and the sagas on top of them, the refinement of ViewSpec,    *)
(* and the windows and detectors over the recorded samples.  Projection and *)
(* Saga share the variables of the tail, so its lemmas, stated of the       *)
(* projection's instance, serve both.                                      *)
(***************************************************************************)
EXTENDS ReadSideProofs, SortingProofs

-----------------------------------------------------------------------------
(* The tails.                                                               *)

AnyRow == [row : Nat \ {0}, cat : Categories, ent : Entities, nr : Nat \ {0}, tag : Proj!Tags]

SameSource(q, r) == q.cat = r.cat /\ q.ent = r.ent

\* A row that is or was stored: the rows of its source that are stored have other numbers,
\* and those with lower numbers have lower row numbers.
Genuine(r) ==
    /\ r \in AnyRow /\ r.row <= top /\ r.nr <= written[r.cat][r.ent]
    /\ \A q \in log : SameSource(q, r) => (q.nr = r.nr => q = r) /\ (q.nr < r.nr => q.row < r.row)

\* The tail of c is past row q.
Passed(c, q) ==
    /\ tail[c].on
    /\ IF backend = "inmem" THEN q.nr <= tail[c].emitted[q.ent] ELSE q.row <= tail[c].cursor

TailRecord == [on : BOOLEAN, page : SUBSET AnyRow, queue : Seq(AnyRow), emitted : [Entities -> Nat], cursor : Nat]

TailShape ==
    /\ backend \in {"inmem", "sqlite"} /\ IsFiniteSet(log) /\ top \in Nat
    /\ written \in [Categories -> [Entities -> Nat]]
    /\ tail \in [Categories -> TailRecord]

\* The SQLite tail: what is stored between the cursor and a row of the page is on the page.
PageInv(t, c) ==
    backend = "sqlite" =>
        /\ t.queue = << >> /\ t.cursor <= top /\ \A p \in t.page : t.cursor < p.row
        /\ \A q \in log, p \in t.page : q.cat = c /\ t.cursor < q.row /\ q.row <= p.row => q \in t.page \/ q \in reused

\* The in-memory tail: every row is emitted, in the backlog or queued, and those come in this order.
SeamInv(t, c) ==
    backend = "inmem" /\ t.on =>
        /\ \A q \in log : q.cat = c => \/ q.nr <= t.emitted[q.ent] \/ q \in t.page
                                       \/ \E i \in 1 .. Len(t.queue) : q = t.queue[i]
        /\ \A p \in t.page, i \in 1 .. Len(t.queue) : p.ent = t.queue[i].ent => p.nr < t.queue[i].nr
        /\ \A i, j \in 1 .. Len(t.queue) : i < j /\ t.queue[i].ent = t.queue[j].ent => t.queue[i].nr < t.queue[j].nr
        /\ \A e \in Entities : t.emitted[e] <= written[c][e]

\* What is waiting in a tail was stored in its category.
WaitingInv(t, c) ==
    /\ \A r \in t.page : Genuine(r) /\ r.cat = c
    /\ \A i \in 1 .. Len(t.queue) : Genuine(t.queue[i]) /\ t.queue[i].cat = c

TailInv ==
    /\ TailShape
    /\ \A r \in log : Genuine(r)
    /\ \A c \in Categories : PageInv(tail[c], c) /\ SeamInv(tail[c], c) /\ WaitingInv(tail[c], c)

TailStep ==
    \/ \E c \in Categories, e \in Entities, tag \in Proj!Tags : Proj!Write(c, e, tag)
    \/ \E c \in Categories : Proj!Subscribe(c) \/ Proj!FetchPage(c) \/ Proj!DeleteBefore(c) \/ \E r : Proj!Yields(c, r)
    \/ Proj!TailsDie
    \/ UNCHANGED tailState

\* A row number handed out is above those of the stored rows.
LEMMA NextRowAbove ==
    ASSUME TailInv
    PROVE  Proj!NextRow \in Nat \ {0} /\ \A r \in log : r.row < Proj!NextRow
<1> DEFINE S == {r.row : r \in log}
<1>1. \A r \in log : r.row \in Nat \ {0} /\ r.row <= top
    BY DEF TailInv, Genuine, AnyRow
<1>2. CASE log = {}
    BY <1>2 DEF Proj!NextRow
<1>3. CASE log # {}
    <2>1. S \subseteq Nat /\ S # {} /\ \A x \in S : x <= top
        BY <1>1, <1>3
    <2>2. \E x \in S : \A y \in S : y <= x
        <3> HIDE DEF S
        <3> QED BY <2>1, GreatestExists DEF TailInv, TailShape
    <2>3. Proj!Max(S) \in S /\ \A y \in S : Proj!Max(S) >= y
        <3>1. \E x \in S : \A y \in S : x >= y
            BY <2>1, <2>2
        <3> HIDE DEF S
        <3> QED BY <3>1 DEF Proj!Max
    <2>4. \A r \in log : r.row \in S
        OBVIOUS
    <2>5. Proj!NextRow = Proj!Max(S) + 1
        BY <1>3 DEF Proj!NextRow
    <2> HIDE DEF S
    <2>6. PICK m : m = Proj!Max(S)
        OBVIOUS
    <2>7. m \in Nat /\ \A y \in S : m >= y
        BY <2>1, <2>3, <2>6
    <2>8. Proj!NextRow = m + 1
        BY <2>5, <2>6
    <2>9. \A r \in log : r.row <= m
        BY <1>1, <2>4, <2>7
    <2> QED BY <1>1, <2>7, <2>8, <2>9
<1> QED BY <1>2, <1>3

\* The row a write stores.
Fresh(c, e, tag) == Proj!Row(Proj!NextRow, c, e, written[c][e] + 1, tag)

LEMMA WriteIsFresh ==
    ASSUME TailInv, NEW c \in Categories, NEW e \in Entities, NEW tag \in Proj!Tags, Proj!Write(c, e, tag)
    PROVE  /\ Fresh(c, e, tag) \in AnyRow
           /\ log' = log \cup {Fresh(c, e, tag)} /\ UNCHANGED backend
           /\ written' = [written EXCEPT ![c][e] = @ + 1]
           /\ top' \in Nat /\ top' >= top /\ Fresh(c, e, tag).row <= top'
           /\ reused \subseteq reused' /\ (Fresh(c, e, tag).row > top \/ Fresh(c, e, tag) \in reused')
           /\ \A q \in log : q.row < Fresh(c, e, tag).row
           /\ tail' = IF backend = "inmem" /\ tail[c].on
                      THEN [tail EXCEPT ![c].queue = Append(@, Fresh(c, e, tag))] ELSE tail
<1>1. Proj!NextRow \in Nat \ {0} /\ \A q \in log : q.row < Proj!NextRow
    BY NextRowAbove
<1>2. written[c][e] \in Nat /\ top \in Nat
    <2>1. TailShape
        BY DEF TailInv
    <2>2. written \in [Categories -> [Entities -> Nat]] /\ top \in Nat
        BY <2>1 DEF TailShape
    <2> QED BY <2>2
<1> QED BY <1>1, <1>2 DEF Fresh, Proj!Row, Proj!Write, AnyRow

\* What was stored stays genuine.
LEMMA GenuineStays ==
    ASSUME TailInv, TailStep, NEW r, Genuine(r) PROVE Genuine(r)'
<1>1. CASE \E c \in Categories, e \in Entities, tag \in Proj!Tags : Proj!Write(c, e, tag)
    <2>1. PICK c \in Categories, e \in Entities, tag \in Proj!Tags : Proj!Write(c, e, tag)
        BY <1>1
    <2>2. PICK f : f = Fresh(c, e, tag)
        OBVIOUS
    <2>3. f \in AnyRow /\ f.cat = c /\ f.ent = e /\ f.nr = written[c][e] + 1
        BY <2>1, <2>2, WriteIsFresh DEF Fresh, Proj!Row
    <2>4. /\ log' = log \cup {f} /\ top' \in Nat /\ top' >= top /\ written' = [written EXCEPT ![c][e] = @ + 1]
        BY <2>1, <2>2, WriteIsFresh
    <2>5. r \in AnyRow /\ r.cat \in Categories /\ r.ent \in Entities /\ r.nr \in Nat /\ r.row \in Nat /\ top \in Nat
        BY DEF Genuine, AnyRow, TailInv, TailShape
    <2>6. written[r.cat][r.ent] \in Nat /\ written'[r.cat][r.ent] \in Nat /\ written'[r.cat][r.ent] >= written[r.cat][r.ent]
        BY <2>4, <2>5 DEF TailInv, TailShape
    <2>7. SameSource(f, r) => f.nr > r.nr
        BY <2>3, <2>5, <2>6 DEF SameSource, Genuine
    <2>8. f.nr \in Nat
        BY <2>3 DEF AnyRow
    <2> QED BY <2>4, <2>5, <2>6, <2>7, <2>8 DEF Genuine
<1>2. CASE UNCHANGED <<top, written>> /\ log' \subseteq log
    BY <1>2 DEF Genuine
<1>3. CASE \E c \in Categories : Proj!DeleteBefore(c)
    BY <1>2, <1>3 DEF Proj!DeleteBefore
<1>4. ASSUME NEW c \in Categories, Proj!Subscribe(c) \/ Proj!FetchPage(c) \/ \E x : Proj!Yields(c, x) PROVE Genuine(r)'
    <2>1. UNCHANGED <<log, top, written>>
        BY <1>4, ZenonT(40) DEF Proj!Subscribe, Proj!FetchPage, Proj!Yields
    <2> QED BY <2>1 DEF Genuine
<1>5. CASE Proj!TailsDie \/ UNCHANGED tailState
    <2>1. UNCHANGED <<log, top, written>>
        BY <1>5 DEF Proj!TailsDie, tailState
    <2> QED BY <1>2, <2>1
<1> QED BY <1>1, <1>3, <1>4, <1>5 DEF TailStep

LEMMA WriteKeepsTails ==
    ASSUME TailInv, NEW c \in Categories, NEW e \in Entities, NEW tag \in Proj!Tags, Proj!Write(c, e, tag)
    PROVE  TailInv'
<1>0. TailStep
    BY DEF TailStep
<1>1. PICK f : f = Fresh(c, e, tag)
    OBVIOUS
<1>2. f \in AnyRow /\ f.cat = c /\ f.ent = e /\ f.nr = written[c][e] + 1 /\ f.row \in Nat /\ f.nr \in Nat
    BY <1>1, WriteIsFresh DEF Fresh, Proj!Row, AnyRow
<1>3. /\ log' = log \cup {f} /\ UNCHANGED backend /\ written' = [written EXCEPT ![c][e] = @ + 1]
      /\ top' \in Nat /\ top' >= top /\ f.row <= top' /\ reused \subseteq reused' /\ (f.row > top \/ f \in reused')
      /\ \A q \in log : q.row < f.row
    BY <1>1, WriteIsFresh
<1>4. tail' = IF backend = "inmem" /\ tail[c].on THEN [tail EXCEPT ![c].queue = Append(@, f)] ELSE tail
    BY <1>1, WriteIsFresh
<1>5. \A d \in Categories : tail[d] \in TailRecord
    BY DEF TailInv, TailShape
<1>6. TailShape'
    <2>1. IsFiniteSet(log \cup {f})
        BY FS_AddElement DEF TailInv, TailShape
    <2>2. written' \in [Categories -> [Entities -> Nat]]
        BY <1>3 DEF TailInv, TailShape
    <2>3. tail' \in [Categories -> TailRecord]
        <3>1. Append(tail[c].queue, f) \in Seq(AnyRow)
            BY <1>2, <1>5 DEF TailRecord
        <3>2. [tail[c] EXCEPT !.queue = Append(@, f)] \in TailRecord
            BY <1>5, <3>1 DEF TailRecord
        <3>3. tail \in [Categories -> TailRecord]
            BY DEF TailInv, TailShape
        <3>4. [tail EXCEPT ![c].queue = Append(@, f)] = [tail EXCEPT ![c] = [tail[c] EXCEPT !.queue = Append(@, f)]]
            BY <3>3
        <3> QED BY <1>4, <3>2, <3>3, <3>4
    <2> QED BY <1>3, <2>1, <2>2, <2>3 DEF TailInv, TailShape
<1>7. Genuine(f)'
    <2>1. \A q \in log : SameSource(q, f) => q.nr < f.nr /\ q.nr \in Nat
        BY <1>2 DEF TailInv, TailShape, Genuine, SameSource, AnyRow
    <2>2. f.nr <= written'[f.cat][f.ent]
        BY <1>2, <1>3 DEF TailInv, TailShape
    <2> QED BY <1>2, <1>3, <2>1, <2>2 DEF Genuine
<1>8. \A r \in log' : Genuine(r)'
    BY <1>0, <1>3, <1>7, GenuineStays DEF TailInv
<1>9. ASSUME NEW d \in Categories PROVE PageInv(tail[d], d)' /\ SeamInv(tail[d], d)' /\ WaitingInv(tail[d], d)'
    <2>1. PICK t : t = tail[d]
        OBVIOUS
    <2>2. t \in TailRecord /\ PageInv(t, d) /\ SeamInv(t, d) /\ WaitingInv(t, d)
        BY <1>5, <2>1 DEF TailInv
    <2>3. /\ t.page \in SUBSET AnyRow /\ t.queue \in Seq(AnyRow) /\ t.emitted \in [Entities -> Nat] /\ t.cursor \in Nat
          /\ \A i \in 1 .. Len(t.queue) : t.queue[i] \in AnyRow
        BY <2>2 DEF TailRecord
    <2>4. top \in Nat /\ \A q \in AnyRow : q.row \in Nat /\ q.nr \in Nat /\ q.cat \in Categories /\ q.ent \in Entities
        BY DEF TailInv, TailShape, AnyRow
    <2>5. PICK u : u = tail'[d]
        OBVIOUS
    <2>6. /\ u.page = t.page /\ u.emitted = t.emitted /\ u.cursor = t.cursor /\ u.on = t.on
          /\ u.queue = IF backend = "inmem" /\ t.on /\ d = c THEN Append(t.queue, f) ELSE t.queue
        BY <1>4, <2>1, <2>2, <2>5 DEF TailInv, TailShape, TailRecord
    <2>7. \A p \in t.page : p.row \in Nat /\ p.row <= top /\ p.nr <= written[p.cat][p.ent] /\ p.cat = d /\ p.nr \in Nat
        BY <2>2, <2>3, <2>4 DEF WaitingInv, Genuine
    <2>8. \A i \in 1 .. Len(t.queue) :
              t.queue[i].nr \in Nat /\ t.queue[i].cat = d /\ t.queue[i].nr <= written[d][t.queue[i].ent]
        BY <2>2, <2>3, <2>4 DEF WaitingInv, Genuine
    <2>9. /\ \A k \in Entities : written[d][k] \in Nat /\ written'[d][k] \in Nat /\ written[d][k] <= written'[d][k]
        BY <1>3 DEF TailInv, TailShape
    <2>10. Len(t.queue) \in Nat /\ Len(u.queue) \in Nat
           /\ \A i \in 1 .. Len(u.queue) : \/ i \in 1 .. Len(t.queue) /\ u.queue[i] = t.queue[i]
                                           \/ i = Len(t.queue) + 1 /\ u.queue[i] = f /\ d = c
        BY <2>3, <2>6
    <2>11. WaitingInv(u, d)'
        <3>1. \A p \in u.page : Genuine(p)' /\ p.cat = d
            BY <1>0, <2>2, <2>6, GenuineStays DEF WaitingInv
        <3>2. ASSUME NEW i \in 1 .. Len(u.queue) PROVE Genuine(u.queue[i])' /\ u.queue[i].cat = d
            BY <1>0, <1>2, <1>7, <2>2, <2>10, GenuineStays DEF WaitingInv
        <3> QED BY <3>1, <3>2 DEF WaitingInv
    <2>12. PageInv(u, d)'
        <3> SUFFICES ASSUME backend = "sqlite" PROVE PageInv(u, d)'
            BY <1>3 DEF PageInv
        <3>1. u.queue = << >> /\ u.cursor <= top' /\ \A p \in u.page : u.cursor < p.row
            BY <1>3, <2>2, <2>3, <2>4, <2>6 DEF PageInv
        <3>2. ASSUME NEW q \in log', NEW p \in u.page, q.cat = d /\ u.cursor < q.row /\ q.row <= p.row
              PROVE  q \in u.page \/ q \in reused'
            <4>1. CASE q \in log
                BY <1>3, <2>2, <2>6, <3>2, <4>1 DEF PageInv
            <4>2. CASE q = f
                BY <1>2, <1>3, <2>4, <2>6, <2>7, <3>2, <4>2
            <4> QED BY <1>3, <4>1, <4>2
        <3> QED BY <3>1, <3>2 DEF PageInv
    <2>13. SeamInv(u, d)'
        <3> SUFFICES ASSUME backend = "inmem", t.on PROVE SeamInv(u, d)'
            BY <1>3, <2>6 DEF SeamInv
        <3>1. ASSUME NEW q \in log', q.cat = d
              PROVE  \/ q.nr <= u.emitted[q.ent] \/ q \in u.page \/ \E i \in 1 .. Len(u.queue) : q = u.queue[i]
            <4>1. CASE q \in log
                <5>1. \A i \in 1 .. Len(t.queue) : i \in 1 .. Len(u.queue) /\ u.queue[i] = t.queue[i]
                    BY <1>2, <2>3, <2>6
                <5> QED BY <2>2, <2>6, <3>1, <4>1, <5>1 DEF SeamInv
            <4>2. CASE q = f
                <5>1. d = c
                    BY <1>2, <3>1, <4>2
                <5>2. Len(t.queue) + 1 \in 1 .. Len(u.queue) /\ u.queue[Len(t.queue) + 1] = f
                    BY <1>2, <2>3, <2>6, <5>1
                <5> QED BY <4>2, <5>2
            <4> QED BY <1>3, <4>1, <4>2
        <3>2. ASSUME NEW p \in u.page, NEW i \in 1 .. Len(u.queue), p.ent = u.queue[i].ent PROVE p.nr < u.queue[i].nr
            <4>1. CASE i \in 1 .. Len(t.queue) /\ u.queue[i] = t.queue[i]
                BY <2>2, <2>6, <3>2, <4>1 DEF SeamInv
            <4>2. CASE u.queue[i] = f /\ d = c
                <5>1. p.nr \in Nat /\ p.nr <= written[c][e]
                    BY <1>2, <2>6, <2>7, <3>2, <4>2
                <5>2. f.nr = written[c][e] + 1 /\ written[c][e] \in Nat
                    BY <1>2, <2>9, <4>2
                <5> QED BY <4>2, <5>1, <5>2
            <4> QED BY <2>10, <4>1, <4>2
        <3>3. ASSUME NEW i \in 1 .. Len(u.queue), NEW j \in 1 .. Len(u.queue), i < j, u.queue[i].ent = u.queue[j].ent
              PROVE  u.queue[i].nr < u.queue[j].nr
            <4>1. i \in 1 .. Len(t.queue) /\ u.queue[i] = t.queue[i]
                BY <2>10, <3>3
            <4>2. CASE j \in 1 .. Len(t.queue) /\ u.queue[j] = t.queue[j]
                <5>1. \A x, y \in 1 .. Len(t.queue) : x < y /\ t.queue[x].ent = t.queue[y].ent => t.queue[x].nr < t.queue[y].nr
                    BY <2>2 DEF SeamInv
                <5> QED BY <3>3, <4>1, <4>2, <5>1
            <4>3. CASE u.queue[j] = f /\ d = c
                <5>1. u.queue[i].nr \in Nat /\ u.queue[i].nr <= written[c][e]
                    BY <1>2, <2>8, <3>3, <4>1, <4>3
                <5>2. f.nr = written[c][e] + 1 /\ written[c][e] \in Nat
                    BY <1>2, <2>9, <4>3
                <5> QED BY <4>3, <5>1, <5>2
            <4> QED BY <2>10, <4>2, <4>3
        <3>4. \A k \in Entities : u.emitted[k] <= written'[d][k]
            BY <2>2, <2>3, <2>6, <2>9 DEF SeamInv
        <3> QED BY <3>1, <3>2, <3>3, <3>4 DEF SeamInv
    <2> QED BY <2>5, <2>11, <2>12, <2>13
<1> QED BY <1>6, <1>8, <1>9 DEF TailInv

\* What a pull does to the tail: from the page, or from the queue once the page is empty.
FromPage(t, u, r) ==
    /\ r \in t.page /\ u.page = t.page \ {r} /\ u.queue = t.queue /\ u.on = t.on
    /\ backend = "inmem" => /\ u.cursor = t.cursor
                            /\ u.emitted = [t.emitted EXCEPT ![r.ent] = Proj!Higher(@, r.nr)]
                            /\ \A s \in t.page \ {r} : s.ent = r.ent => r.nr < s.nr
    /\ backend = "sqlite" => u.cursor = r.row /\ u.emitted = t.emitted /\ \A s \in t.page \ {r} : r.row < s.row

FromQueue(t, u, r) ==
    /\ t.page = {} /\ u.page = {} /\ u.cursor = t.cursor /\ u.on = t.on
    /\ \E i \in 1 .. Len(t.queue) :
          /\ r = t.queue[i] /\ r.nr > t.emitted[r.ent]
          /\ \A j \in 1 .. i - 1 : t.queue[j].nr <= t.emitted[t.queue[j].ent]
          /\ u.queue = SubSeq(t.queue, i + 1, Len(t.queue))
    /\ u.emitted = [t.emitted EXCEPT ![r.ent] = r.nr]

LEMMA PullIsEither ==
    ASSUME TailInv, NEW c \in Categories, NEW r, Proj!Yields(c, r)
    PROVE  /\ Genuine(r) /\ r.cat = c /\ tail[c].on /\ UNCHANGED <<backend, log, written, reused, top>>
           /\ tail' = [tail EXCEPT ![c] = tail'[c]]
           /\ FromPage(tail[c], tail'[c], r) \/ FromQueue(tail[c], tail'[c], r)
<1>1. tail[c] \in TailRecord /\ tail \in [Categories -> TailRecord] /\ WaitingInv(tail[c], c)
    BY DEF TailInv, TailShape
<1>2. tail[c].on /\ UNCHANGED <<backend, log, written, reused, top>>
    BY DEF Proj!Yields
<1>3. CASE /\ Proj!NextOnPage(c, r)
           /\ tail' = [tail EXCEPT ![c].page = @ \ {r},
                                   ![c].cursor = IF backend = "sqlite" THEN r.row ELSE @,
                                   ![c].emitted[r.ent] = IF backend = "inmem" THEN Proj!Higher(@, r.nr) ELSE @]
    <2>1. r \in tail[c].page
        BY <1>3 DEF Proj!NextOnPage, Proj!IsFirst
    <2>2. Genuine(r) /\ r.cat = c /\ r.ent \in Entities
        BY <1>1, <2>1 DEF WaitingInv, Genuine, AnyRow
    <2>3. /\ tail' = [tail EXCEPT ![c] = tail'[c]]
          /\ tail'[c].page = tail[c].page \ {r} /\ tail'[c].queue = tail[c].queue /\ tail'[c].on = tail[c].on
          /\ tail'[c].cursor = IF backend = "sqlite" THEN r.row ELSE tail[c].cursor
          /\ tail'[c].emitted = [tail[c].emitted EXCEPT ![r.ent] = IF backend = "inmem" THEN Proj!Higher(@, r.nr) ELSE @]
        BY <1>1, <1>3 DEF TailRecord
    <2>4. backend = "inmem" => \A s \in tail[c].page \ {r} : s.ent = r.ent => r.nr < s.nr
        BY <1>1, <1>3, <2>2 DEF Proj!NextOnPage, Proj!IsFirst, Proj!Precedes, WaitingInv
    <2>5. backend = "sqlite" => \A s \in tail[c].page \ {r} : r.row < s.row
        BY <1>3 DEF Proj!NextOnPage
    <2>6. backend = "sqlite" => tail'[c].emitted = tail[c].emitted
        BY <1>1, <2>2, <2>3 DEF TailRecord
    <2>7. FromPage(tail[c], tail'[c], r)
        BY <2>1, <2>3, <2>4, <2>5, <2>6 DEF FromPage
    <2> QED BY <1>2, <2>2, <2>3, <2>7
<1>4. CASE /\ tail[c].page = {}
           /\ \E i \in 1 .. Len(tail[c].queue) :
                 /\ Proj!NextInQueue(c, i) /\ r = tail[c].queue[i]
                 /\ tail' = [tail EXCEPT ![c].queue = SubSeq(@, i + 1, Len(@)), ![c].emitted[r.ent] = r.nr]
    <2>1. PICK i \in 1 .. Len(tail[c].queue) :
                 /\ Proj!NextInQueue(c, i) /\ r = tail[c].queue[i]
                 /\ tail' = [tail EXCEPT ![c].queue = SubSeq(@, i + 1, Len(@)), ![c].emitted[r.ent] = r.nr]
        BY <1>4
    <2>2. Genuine(r) /\ r.cat = c /\ r.nr \in Nat /\ r.ent \in Entities
        BY <1>1, <2>1 DEF WaitingInv, Genuine, AnyRow
    <2>3. /\ tail' = [tail EXCEPT ![c] = tail'[c]]
          /\ tail'[c].page = tail[c].page /\ tail'[c].on = tail[c].on /\ tail'[c].cursor = tail[c].cursor
          /\ tail'[c].emitted = [tail[c].emitted EXCEPT ![r.ent] = r.nr]
          /\ tail'[c].queue = SubSeq(tail[c].queue, i + 1, Len(tail[c].queue))
        BY <1>1, <2>1 DEF TailRecord
    <2>4. tail[c].emitted[r.ent] \in Nat
        BY <1>1, <2>2 DEF TailRecord
    <2>5. r.nr > tail[c].emitted[r.ent] /\ \A j \in 1 .. i - 1 : tail[c].queue[j].nr <= tail[c].emitted[tail[c].queue[j].ent]
        BY <2>1, <2>2, <2>4, SMTT(40) DEF Proj!NextInQueue, Proj!Covered
    <2>6. FromQueue(tail[c], tail'[c], r)
        BY <1>4, <2>1, <2>3, <2>5 DEF FromQueue
    <2> QED BY <1>2, <2>2, <2>3, <2>6
<1> QED BY <1>3, <1>4 DEF Proj!Yields

\* What a pull hands over: every earlier row of its source was handed over before, or stands
\* under a reused row number; and the tail is past no other row than before.
LEMMA PullIsInOrder ==
    ASSUME TailInv, NEW c \in Categories, NEW r, Proj!Yields(c, r)
    PROVE  /\ \A q \in log : SameSource(q, r) /\ q.nr < r.nr => Passed(c, q) \/ q \in reused
           /\ \A q \in log : q.cat = c /\ Passed(c, q)' => Passed(c, q) \/ q = r \/ q \in reused
<1>1. PICK t, u : t = tail[c] /\ u = tail'[c]
    OBVIOUS
<1>2. /\ Genuine(r) /\ r.cat = c /\ t.on /\ UNCHANGED <<backend, log, written, reused, top>>
      /\ FromPage(t, u, r) \/ FromQueue(t, u, r)
    BY <1>1, PullIsEither
<1>3. t \in TailRecord /\ PageInv(t, c) /\ SeamInv(t, c) /\ WaitingInv(t, c)
    BY <1>1 DEF TailInv, TailShape
<1>4. /\ t.emitted \in [Entities -> Nat] /\ t.cursor \in Nat /\ t.queue \in Seq(AnyRow) /\ Len(t.queue) \in Nat
    BY <1>3 DEF TailRecord
<1>5. r.row \in Nat /\ r.nr \in Nat /\ r.ent \in Entities /\ r.cat \in Categories
    BY <1>2 DEF Genuine, AnyRow
<1>6. \A q \in log : q.row \in Nat /\ q.nr \in Nat /\ q.ent \in Entities
    BY DEF TailInv, Genuine, AnyRow
<1>7. \A q \in log : SameSource(q, r) => (q.nr = r.nr => q = r) /\ (q.nr < r.nr => q.row < r.row)
    BY <1>2 DEF Genuine
<1>8. CASE backend = "sqlite"
    <2>1. FromPage(t, u, r)
        <3>1. t.queue = << >>
            BY <1>3, <1>8 DEF PageInv
        <3>2. ~FromQueue(t, u, r)
            BY <3>1 DEF FromQueue
        <3> QED BY <1>2, <3>2
    <2>2. ASSUME NEW q \in log, q.cat = c, q.row <= r.row PROVE q.row <= t.cursor \/ q = r \/ q \in reused
        <3>0. q.row \in Nat
            BY <1>6
        <3> SUFFICES ASSUME t.cursor < q.row PROVE q = r \/ q \in reused
            BY <1>4, <3>0
        <3>1. q \in t.page \/ q \in reused
            BY <1>3, <1>8, <2>1, <2>2 DEF PageInv, FromPage
        <3>2. q \in t.page => q = r
            <4> SUFFICES ASSUME q \in t.page, q # r PROVE FALSE
                OBVIOUS
            <4>1. r.row < q.row
                BY <1>8, <2>1 DEF FromPage
            <4> QED BY <1>5, <2>2, <3>0, <4>1
        <3> QED BY <3>1, <3>2
    <2>3. \A q \in log : SameSource(q, r) /\ q.nr < r.nr => q.cat = c /\ q.row <= r.row /\ q # r
        <3> SUFFICES ASSUME NEW q \in log, SameSource(q, r), q.nr < r.nr PROVE q.cat = c /\ q.row <= r.row /\ q # r
            OBVIOUS
        <3>1. q.row \in Nat /\ q.nr \in Nat /\ q.row < r.row
            BY <1>6, <1>7
        <3> QED BY <1>2, <1>5, <3>1 DEF SameSource
    <2>4. u.cursor = r.row /\ u.on
        BY <1>2, <1>8, <2>1 DEF FromPage
    <2> QED BY <1>1, <1>2, <1>8, <2>2, <2>3, <2>4 DEF Passed
<1>9. CASE backend = "inmem"
    <2>1. ASSUME NEW q \in log, SameSource(q, r), q.nr < r.nr PROVE q.nr <= t.emitted[q.ent]
        <3> SUFFICES ASSUME ~(q.nr <= t.emitted[q.ent]) PROVE FALSE
            OBVIOUS
        <3>0. q.nr \in Nat /\ ~(r.nr < q.nr)
            BY <1>5, <1>6, <2>1
        <3>1. q \in t.page \/ \E i \in 1 .. Len(t.queue) : q = t.queue[i]
            BY <1>2, <1>3, <1>9, <2>1 DEF SeamInv, SameSource
        <3>2. CASE FromPage(t, u, r)
            <4>1. q \notin t.page
                <5> SUFFICES ASSUME q \in t.page PROVE FALSE
                    OBVIOUS
                <5>1. q # r
                    BY <1>5, <2>1
                <5> QED BY <1>9, <2>1, <3>0, <3>2, <5>1 DEF FromPage, SameSource
            <4>2. PICK i \in 1 .. Len(t.queue) : q = t.queue[i]
                BY <3>1, <4>1
            <4>3. r \in t.page /\ r.ent = t.queue[i].ent
                BY <2>1, <3>2, <4>2 DEF FromPage, SameSource
            <4>4. r.nr < q.nr
                BY <1>2, <1>3, <1>9, <4>2, <4>3 DEF SeamInv
            <4> QED BY <3>0, <4>4
        <3>3. CASE FromQueue(t, u, r)
            <4>1. PICK i \in 1 .. Len(t.queue) : /\ r = t.queue[i]
                      /\ \A j \in 1 .. i - 1 : t.queue[j].nr <= t.emitted[t.queue[j].ent]
                BY <3>3 DEF FromQueue
            <4>2. PICK j \in 1 .. Len(t.queue) : q = t.queue[j]
                BY <3>1, <3>3 DEF FromQueue
            <4>3. ~(j < i)
                BY <4>1, <4>2
            <4>4. j # i
                BY <1>5, <2>1, <4>1, <4>2
            <4>5. i < j
                BY <4>3, <4>4
            <4>6. r.nr < q.nr
                BY <1>2, <1>3, <1>9, <2>1, <4>1, <4>2, <4>5 DEF SeamInv, SameSource
            <4> QED BY <3>0, <4>6
        <3> QED BY <1>2, <3>2, <3>3
    <2>2. u.on /\ u.emitted = [t.emitted EXCEPT ![r.ent] = Proj!Higher(@, r.nr)]
        <3>1. CASE FromPage(t, u, r)
            BY <1>2, <1>9, <3>1 DEF FromPage
        <3>2. CASE FromQueue(t, u, r)
            BY <1>2, <1>4, <1>5, <3>2 DEF FromQueue, Proj!Higher
        <3> QED BY <1>2, <3>1, <3>2
    <2>3. ASSUME NEW q \in log, q.cat = c, q.nr <= u.emitted[q.ent] PROVE q.nr <= t.emitted[q.ent] \/ q = r
        <3>1. CASE q.ent = r.ent
            <4>1. q.nr <= t.emitted[q.ent] \/ q.nr <= r.nr
                BY <1>4, <1>5, <2>2, <2>3, <3>1 DEF Proj!Higher
            <4>2. SameSource(q, r) /\ q.nr \in Nat
                BY <1>2, <1>6, <2>3, <3>1 DEF SameSource
            <4>3. CASE q.nr <= r.nr
                <5>1. q.nr < r.nr \/ q.nr = r.nr
                    BY <1>5, <4>2, <4>3
                <5> QED BY <1>7, <2>1, <4>2, <5>1
            <4> QED BY <4>1, <4>3
        <3>2. CASE q.ent # r.ent
            BY <1>4, <1>6, <2>2, <2>3, <3>2
        <3> QED BY <3>1, <3>2
    <2> QED BY <1>1, <1>2, <1>9, <2>1, <2>2, <2>3 DEF Passed
<1> QED BY <1>8, <1>9 DEF TailInv, TailShape

LEMMA TailReplaced ==
    ASSUME TailInv, NEW c \in Categories, NEW u, UNCHANGED <<backend, log, written, reused, top>>,
           tail' = [tail EXCEPT ![c] = u], u \in TailRecord, PageInv(u, c), SeamInv(u, c), WaitingInv(u, c)
    PROVE  TailInv'
<1>1. TailShape'
    BY DEF TailInv, TailShape
<1>2. \A r : Genuine(r) => Genuine(r)'
    BY DEF Genuine
<1>3. \A d \in Categories : tail'[d] = IF d = c THEN u ELSE tail[d]
    BY DEF TailInv, TailShape
<1>4. ASSUME NEW d \in Categories PROVE PageInv(tail[d], d)' /\ SeamInv(tail[d], d)' /\ WaitingInv(tail[d], d)'
    <2>1. PICK t : t = tail'[d]
        OBVIOUS
    <2>2. PageInv(t, d) /\ SeamInv(t, d) /\ WaitingInv(t, d)
        BY <1>3, <2>1 DEF TailInv
    <2>3. PageInv(t, d)' /\ SeamInv(t, d)'
        BY <2>2 DEF PageInv, SeamInv
    <2>4. WaitingInv(t, d)'
        BY <1>2, <2>2 DEF WaitingInv
    <2> QED BY <2>1, <2>3, <2>4
<1> QED BY <1>1, <1>2, <1>4 DEF TailInv

LEMMA PullKeepsTails ==
    ASSUME TailInv, NEW c \in Categories, NEW r, Proj!Yields(c, r)
    PROVE  TailInv'
<1>1. PICK t, u : t = tail[c] /\ u = tail'[c]
    OBVIOUS
<1>2. /\ Genuine(r) /\ r.cat = c /\ t.on /\ UNCHANGED <<backend, log, written, reused, top>>
      /\ tail' = [tail EXCEPT ![c] = u] /\ (FromPage(t, u, r) \/ FromQueue(t, u, r))
    BY <1>1, PullIsEither
<1>3. t \in TailRecord /\ PageInv(t, c) /\ SeamInv(t, c) /\ WaitingInv(t, c)
    BY <1>1 DEF TailInv, TailShape
<1>4. /\ t.emitted \in [Entities -> Nat] /\ t.cursor \in Nat /\ t.queue \in Seq(AnyRow) /\ Len(t.queue) \in Nat
      /\ t.page \in SUBSET AnyRow /\ t.on \in BOOLEAN
    BY <1>3 DEF TailRecord
<1>5. r.row \in Nat /\ r.nr \in Nat /\ r.ent \in Entities /\ r.cat \in Categories /\ r.row <= top /\ r.nr <= written[c][r.ent]
    BY <1>2 DEF Genuine, AnyRow
<1>6. /\ \E d \in Categories : tail[d] \in TailRecord
      /\ backend \in {"inmem", "sqlite"} /\ top \in Nat
    BY DEF TailInv, TailShape
<1>7. CASE FromPage(t, u, r)
    <2>1. u.page \subseteq t.page /\ u.page = t.page \ {r} /\ u.queue = t.queue /\ u.on = t.on /\ r \in t.page
        BY <1>7 DEF FromPage
    <2>2. u.cursor \in Nat /\ u.emitted \in [Entities -> Nat]
        BY <1>4, <1>5, <1>6, <1>7 DEF FromPage, Proj!Higher
    <2>3. u \in [on : BOOLEAN, page : SUBSET AnyRow, queue : Seq(AnyRow), emitted : [Entities -> Nat], cursor : Nat]
        <3>1. u = [on |-> u.on, page |-> u.page, queue |-> u.queue, emitted |-> u.emitted, cursor |-> u.cursor]
            BY <1>1 DEF Proj!Yields, TailInv, TailShape, TailRecord
        <3> QED BY <1>4, <2>1, <2>2, <3>1
    <2>4. WaitingInv(u, c)
        BY <1>3, <2>1 DEF WaitingInv
    <2>5. PageInv(u, c)
        <3> SUFFICES ASSUME backend = "sqlite" PROVE PageInv(u, c)
            BY DEF PageInv
        <3>1. u.queue = << >> /\ u.cursor = r.row
            BY <1>3, <1>7, <2>1 DEF PageInv, FromPage
        <3>2. ASSUME NEW q \in log, NEW p \in u.page, q.cat = c /\ u.cursor < q.row /\ q.row <= p.row
              PROVE  q \in u.page \/ q \in reused
            <4>1. q.row \in Nat
                BY DEF TailInv, Genuine, AnyRow
            <4>2. q # r
                BY <1>5, <3>1, <3>2
            <4>3. t.cursor < r.row
                BY <1>3, <2>1 DEF PageInv
            <4>4. t.cursor < q.row
                BY <1>4, <1>5, <3>1, <3>2, <4>1, <4>3
            <4> QED BY <1>3, <2>1, <3>2, <4>2, <4>4 DEF PageInv
        <3>3. \A p \in u.page : u.cursor < p.row
            BY <1>7, <2>1, <3>1 DEF FromPage
        <3> QED BY <1>5, <3>1, <3>2, <3>3 DEF PageInv
    <2>6. SeamInv(u, c)
        <3> SUFFICES ASSUME backend = "inmem" PROVE SeamInv(u, c)
            BY DEF SeamInv
        <3>1. u.emitted = [t.emitted EXCEPT ![r.ent] = Proj!Higher(@, r.nr)]
            BY <1>7 DEF FromPage
        <3>2. \A k \in Entities : t.emitted[k] <= written[c][k] /\ t.emitted[k] \in Nat
            BY <1>2, <1>3, <1>4 DEF SeamInv
        <3>3. \A k \in Entities : u.emitted[k] <= written[c][k] /\ u.emitted[k] \in Nat /\ t.emitted[k] <= u.emitted[k]
            BY <1>4, <1>5, <3>1, <3>2 DEF Proj!Higher
        <3>4. r.nr <= u.emitted[r.ent]
            BY <1>4, <1>5, <3>1 DEF Proj!Higher
        <3>5. ASSUME NEW q \in log, q.cat = c
              PROVE  \/ q.nr <= u.emitted[q.ent] \/ q \in u.page \/ \E i \in 1 .. Len(u.queue) : q = u.queue[i]
            <4>1. q.nr \in Nat /\ q.ent \in Entities
                BY DEF TailInv, Genuine, AnyRow
            <4>2. \/ q.nr <= t.emitted[q.ent] \/ q \in t.page \/ \E i \in 1 .. Len(t.queue) : q = t.queue[i]
                BY <1>2, <1>3, <3>5 DEF SeamInv
            <4>3. q.nr <= t.emitted[q.ent] => q.nr <= u.emitted[q.ent]
                BY <3>2, <3>3, <4>1
            <4> QED BY <2>1, <3>4, <4>2, <4>3
        <3> QED BY <1>2, <1>3, <2>1, <3>3, <3>5 DEF SeamInv
    <2>7. u \in TailRecord
        BY <2>3 DEF TailRecord
    <2> QED BY <1>2, <2>4, <2>5, <2>6, <2>7, TailReplaced
<1>8. CASE FromQueue(t, u, r)
    <2>1. PICK i \in 1 .. Len(t.queue) :
              /\ r = t.queue[i] /\ r.nr > t.emitted[r.ent]
              /\ \A j \in 1 .. i - 1 : t.queue[j].nr <= t.emitted[t.queue[j].ent]
              /\ u.queue = SubSeq(t.queue, i + 1, Len(t.queue))
        BY <1>8 DEF FromQueue
    <2>2. t.page = {} /\ u.page = {} /\ u.cursor = t.cursor /\ u.on = t.on /\ u.emitted = [t.emitted EXCEPT ![r.ent] = r.nr]
        BY <1>8 DEF FromQueue
    <2>3. backend = "inmem"
        BY <1>3, <1>6, <2>1 DEF PageInv
    <2>4. /\ u.queue \in Seq(AnyRow) /\ Len(u.queue) = Len(t.queue) - i
          /\ \A j \in 1 .. Len(u.queue) : i + j \in 1 .. Len(t.queue) /\ u.queue[j] = t.queue[i + j]
        BY <1>4, <2>1
    <2>5. u.emitted \in [Entities -> Nat]
        BY <1>4, <1>5, <2>2
    <2>6. u \in [on : BOOLEAN, page : SUBSET AnyRow, queue : Seq(AnyRow), emitted : [Entities -> Nat], cursor : Nat]
        <3>1. u = [on |-> u.on, page |-> u.page, queue |-> u.queue, emitted |-> u.emitted, cursor |-> u.cursor]
            BY <1>1 DEF Proj!Yields, TailInv, TailShape, TailRecord
        <3> QED BY <1>4, <2>2, <2>4, <2>5, <3>1
    <2>7. WaitingInv(u, c)
        BY <1>3, <2>2, <2>4 DEF WaitingInv
    <2>8. PageInv(u, c)
        BY <2>3 DEF PageInv
    <2>9. SeamInv(u, c)
        <3>1. ASSUME NEW q \in log, q.cat = c
              PROVE  \/ q.nr <= u.emitted[q.ent] \/ q \in u.page \/ \E j \in 1 .. Len(u.queue) : q = u.queue[j]
            <4>1. q.nr \in Nat /\ q.ent \in Entities
                BY DEF TailInv, Genuine, AnyRow
            <4>2. q.nr <= t.emitted[q.ent] => q.nr <= u.emitted[q.ent]
                <5>1. t.emitted[q.ent] \in Nat
                    BY <1>4, <4>1
                <5>2. u.emitted[q.ent] = IF q.ent = r.ent THEN r.nr ELSE t.emitted[q.ent]
                    BY <1>4, <2>2, <4>1
                <5>3. r.nr \in Nat /\ r.nr > t.emitted[r.ent]
                    BY <1>5, <2>1
                <5> QED BY <4>1, <5>1, <5>2, <5>3
            <4>3. q.nr <= t.emitted[q.ent] \/ \E j \in 1 .. Len(t.queue) : q = t.queue[j]
                BY <1>2, <1>3, <2>2, <2>3, <3>1 DEF SeamInv
            <4>4. ASSUME NEW j \in 1 .. Len(t.queue), q = t.queue[j]
                  PROVE  q.nr <= u.emitted[q.ent] \/ \E k \in 1 .. Len(u.queue) : q = u.queue[k]
                <5>1. CASE j < i
                    BY <2>1, <4>2, <4>4, <5>1
                <5>2. CASE j = i
                    BY <1>4, <1>5, <2>1, <2>2, <4>4, <5>2
                <5>3. CASE j > i
                    <6>1. j - i \in 1 .. Len(u.queue) /\ u.queue[j - i] = t.queue[i + (j - i)] /\ i + (j - i) = j
                        BY <1>4, <2>4, <5>3
                    <6> QED BY <4>4, <6>1
                <5> QED BY <1>4, <5>1, <5>2, <5>3
            <4> QED BY <4>2, <4>3, <4>4
        <3>2. ASSUME NEW j \in 1 .. Len(u.queue), NEW k \in 1 .. Len(u.queue), j < k, u.queue[j].ent = u.queue[k].ent
              PROVE  u.queue[j].nr < u.queue[k].nr
            <4>1. PICK a, b : a = i + j /\ b = i + k
                OBVIOUS
            <4>2. a \in 1 .. Len(t.queue) /\ b \in 1 .. Len(t.queue) /\ u.queue[j] = t.queue[a] /\ u.queue[k] = t.queue[b]
                BY <2>4, <4>1
            <4>3. a < b
                BY <3>2, <4>1
            <4> QED BY <1>2, <1>3, <2>3, <3>2, <4>2, <4>3 DEF SeamInv
        <3>3. \A k \in Entities : u.emitted[k] <= written[c][k]
            BY <1>2, <1>3, <1>4, <1>5, <2>2, <2>3 DEF SeamInv
        <3> QED BY <2>2, <3>1, <3>2, <3>3 DEF SeamInv
    <2>10. u \in TailRecord
        BY <2>6 DEF TailRecord
    <2> QED BY <1>2, <2>7, <2>8, <2>9, <2>10, TailReplaced
<1> QED BY <1>2, <1>7, <1>8

\* A tail that has been opened, and one that is off.
LEMMA SubscribeKeepsTails ==
    ASSUME TailInv, NEW c \in Categories, Proj!Subscribe(c)
    PROVE  TailInv' /\ \A q \in log : ~Passed(c, q)'
<1>0. PICK b, u : b = (IF backend = "inmem" THEN Proj!CategoryRows(c) ELSE {}) /\ u = [Proj!Off EXCEPT !.on = TRUE, !.page = b]
    OBVIOUS
<1>1. /\ u.on /\ u.page = b /\ u.queue = << >> /\ u.emitted = [e \in Entities |-> 0] /\ u.cursor = 0
      /\ tail' = [tail EXCEPT ![c] = u] /\ b = IF backend = "inmem" THEN Proj!CategoryRows(c) ELSE {}
    <2>1. tail' = [tail EXCEPT ![c] = u]
        BY <1>0 DEF Proj!Subscribe, Proj!OpenTail
    <2>2. u.on /\ u.page = b /\ u.queue = << >> /\ u.emitted = [e \in Entities |-> 0] /\ u.cursor = 0
        BY <1>0 DEF Proj!Off
    <2> QED BY <1>0, <2>1, <2>2
<1>2. UNCHANGED <<backend, log, written, reused, top>>
    BY DEF Proj!Subscribe
<1>3. \A q \in log : Genuine(q) /\ q \in AnyRow /\ q.row \in Nat \ {0} /\ q.nr \in Nat \ {0} /\ q.ent \in Entities
    BY DEF TailInv, Genuine, AnyRow
<1>4. u \in TailRecord
    <2>1. b \in SUBSET AnyRow
        BY <1>0, <1>3 DEF Proj!CategoryRows
    <2>2. Proj!Off \in TailRecord
        BY DEF Proj!Off, TailRecord
    <2> QED BY <1>0, <2>1, <2>2 DEF TailRecord
<1>5. WaitingInv(u, c) /\ SeamInv(u, c)
    BY <1>1, <1>3 DEF WaitingInv, SeamInv, Proj!CategoryRows, TailInv, TailShape
<1>6. PageInv(u, c)
    BY <1>1 DEF PageInv, TailInv, TailShape
<1>7. TailInv'
    BY <1>1, <1>2, <1>4, <1>5, <1>6, TailReplaced
<1>8. tail'[c] = u
    BY <1>1 DEF TailInv, TailShape
<1>9. ASSUME NEW q \in log PROVE ~Passed(c, q)'
    BY <1>1, <1>2, <1>3, <1>8 DEF Passed
<1> QED BY <1>7, <1>9

LEMMA DeathKeepsTails ==
    ASSUME TailInv, Proj!TailsDie
    PROVE  TailInv' /\ \A c \in Categories, q \in log : ~Passed(c, q)'
<1>1. UNCHANGED <<backend, log, written, reused, top>>
    BY DEF Proj!TailsDie
<1>2. \A c \in Categories : /\ tail'[c].on = FALSE /\ tail'[c].page = {} /\ tail'[c].queue = << >> /\ tail'[c].cursor = 0
    BY DEF Proj!TailsDie, Proj!Off
<1>3. tail' \in [Categories -> TailRecord]
    BY DEF Proj!TailsDie, Proj!Off, TailRecord
<1>4. TailShape'
    BY <1>1, <1>3 DEF TailInv, TailShape
<1>5. \A r \in log' : Genuine(r)'
    BY <1>1 DEF TailInv, Genuine
<1>6. \A c \in Categories : PageInv(tail[c], c)' /\ SeamInv(tail[c], c)' /\ WaitingInv(tail[c], c)'
    BY <1>1, <1>2 DEF TailInv, TailShape, PageInv, SeamInv, WaitingInv
<1> QED BY <1>2, <1>4, <1>5, <1>6 DEF TailInv, Passed

\* A page is the first rows above the cursor.
LEMMA FetchKeepsTails ==
    ASSUME TailInv, NEW c \in Categories, Proj!FetchPage(c)
    PROVE  TailInv' /\ \A q \in log : Passed(c, q)' => Passed(c, q)
<1>1. PICK t : t = tail[c]
    OBVIOUS
<1>2. PICK A : A = {q \in log : q.cat = c /\ q.row > t.cursor}
    OBVIOUS
<1>3. PICK P : P = {q \in A : Cardinality({s \in A : s.row < q.row}) < PageSize}
    OBVIOUS
<1>4. tail' = [tail EXCEPT ![c].page = P] /\ backend = "sqlite" /\ UNCHANGED <<backend, log, written, reused, top>>
    <2>1. A = {q \in Proj!CategoryRows(c) : q.row > tail[c].cursor}
        BY <1>1, <1>2 DEF Proj!CategoryRows
    <2>2. \A S : Proj!Cardinality(S) = Cardinality(S)
        BY DEF Proj!Cardinality, Cardinality
    <2>3. P = Proj!PageAfter(c)
        BY <1>3, <2>1, <2>2 DEF Proj!PageAfter
    <2> QED BY <2>3 DEF Proj!FetchPage
<1>5. PICK u : u = [t EXCEPT !.page = P]
    OBVIOUS
<1>6. tail' = [tail EXCEPT ![c] = u] /\ t \in TailRecord /\ PageInv(t, c) /\ WaitingInv(t, c)
    BY <1>1, <1>4, <1>5 DEF TailInv, TailShape
<1>7. \A q \in log : Genuine(q) /\ q \in AnyRow /\ q.row \in Nat
    BY DEF TailInv, Genuine, AnyRow
<1>8. u \in TailRecord /\ u.page = P /\ u.cursor = t.cursor /\ u.queue = t.queue /\ u.on = t.on /\ u.cursor \in Nat
    BY <1>2, <1>3, <1>5, <1>6, <1>7 DEF TailRecord
<1>9. ASSUME NEW p \in P, NEW q \in A, q.row <= p.row PROVE q \in P
    <2>1. IsFiniteSet({s \in A : s.row < p.row})
        BY <1>2, FS_Subset DEF TailInv, TailShape
    <2>2. {s \in A : s.row < q.row} \subseteq {s \in A : s.row < p.row}
        <3> SUFFICES ASSUME NEW s \in A, s.row < q.row PROVE s.row < p.row
            OBVIOUS
        <3>1. s.row \in Nat /\ q.row \in Nat /\ p.row \in Nat
            BY <1>2, <1>3, <1>7
        <3> QED BY <1>9, <3>1
    <2>3. PICK m, n : m = Cardinality({s \in A : s.row < q.row}) /\ n = Cardinality({s \in A : s.row < p.row})
        OBVIOUS
    <2>4. m \in Nat /\ n \in Nat /\ m <= n
        BY <2>1, <2>2, <2>3, FS_Subset, FS_CardinalityType
    <2>5. n < PageSize
        BY <1>3, <2>3
    <2>6. m < PageSize
        BY <2>4, <2>5, CountAssumption
    <2> QED BY <1>3, <2>3, <2>6
<1>10. PageInv(u, c)
    <2>1. u.queue = << >> /\ u.cursor <= top
        BY <1>4, <1>6, <1>8 DEF PageInv
    <2>2. \A p \in u.page : u.cursor < p.row
        BY <1>2, <1>3, <1>7, <1>8
    <2>3. ASSUME NEW q \in log, NEW p \in u.page, q.cat = c /\ u.cursor < q.row /\ q.row <= p.row PROVE q \in u.page
        <3>1. q \in A
            BY <1>2, <1>7, <1>8, <2>3
        <3> QED BY <1>8, <1>9, <2>3, <3>1
    <2> QED BY <2>1, <2>2, <2>3 DEF PageInv
<1>11. WaitingInv(u, c)
    BY <1>2, <1>3, <1>6, <1>7, <1>8 DEF WaitingInv
<1>12. SeamInv(u, c)
    BY <1>4 DEF SeamInv
<1>13. TailInv'
    BY <1>4, <1>6, <1>8, <1>10, <1>11, <1>12, TailReplaced
<1>14. tail'[c] = u
    BY <1>6 DEF TailInv, TailShape
<1> QED BY <1>1, <1>4, <1>8, <1>13, <1>14 DEF Passed

LEMMA DeleteKeepsTails ==
    ASSUME TailInv, NEW c \in Categories, Proj!DeleteBefore(c)
    PROVE  TailInv'
<1>1. log' \subseteq log /\ UNCHANGED <<backend, written, reused, top, tail>> /\ backend = "sqlite"
    BY DEF Proj!DeleteBefore
<1>2. IsFiniteSet(log')
    BY <1>1, FS_Subset DEF TailInv, TailShape
<1>3. TailShape'
    BY <1>1, <1>2 DEF TailInv, TailShape
<1>4. \A r : Genuine(r) => Genuine(r)'
    BY <1>1 DEF Genuine
<1>5. ASSUME NEW d \in Categories PROVE PageInv(tail[d], d)' /\ SeamInv(tail[d], d)' /\ WaitingInv(tail[d], d)'
    <2>1. PageInv(tail[d], d)'
        BY <1>1 DEF TailInv, PageInv
    <2>2. SeamInv(tail[d], d)'
        BY <1>1 DEF SeamInv
    <2>3. WaitingInv(tail[d], d)'
        BY <1>1, <1>4 DEF TailInv, WaitingInv
    <2> QED BY <2>1, <2>2, <2>3
<1> QED BY <1>1, <1>3, <1>4, <1>5 DEF TailInv

LEMMA TailsKept == TailInv /\ TailStep => TailInv'
<1> SUFFICES ASSUME TailInv, TailStep PROVE TailInv'
    OBVIOUS
<1>1. CASE UNCHANGED tailState
    BY <1>1 DEF tailState, TailInv, TailShape, Genuine, PageInv, SeamInv, WaitingInv
<1> QED BY <1>1, WriteKeepsTails, SubscribeKeepsTails, FetchKeepsTails, DeleteKeepsTails, PullKeepsTails, DeathKeepsTails DEF TailStep

LEMMA TailsStart == Proj!TailInit => TailInv
<1> SUFFICES ASSUME Proj!TailInit PROVE TailInv
    OBVIOUS
<1>1. TailShape
    BY FS_EmptySet DEF Proj!TailInit, Proj!Off, TailShape, TailRecord
<1> QED BY <1>1 DEF Proj!TailInit, Proj!Off, TailInv, PageInv, SeamInv, WaitingInv

-----------------------------------------------------------------------------
(* Projections: no silent gap.                                              *)

\* Row r needs no fold any more: it is processed, or excused.
Settled(r) == r.nr <= offset[r.cat][r.ent] \/ r.tag = "poison" \/ torn # "no" \/ r \in reused

\* A rebuild under way has yet to fold row r.
Rebuilding(r) == pass.of = "rebuild" /\ r \in pass.left

ProjectionShape ==
    /\ view \in [Entities -> Seq(AnyRow)] /\ offset \in [Categories -> [Entities -> Nat]]
    /\ rec = [c \in Categories |-> rec[c]] /\ waiter \in [Entities -> {"idle", "waiting"}]
    /\ pass = [of |-> pass.of, left |-> pass.left] /\ pass.left \subseteq log
    /\ \A c \in Categories, e \in Entities : offset[c][e] <= written[c][e]

\* What a tail is past is settled, in the hands of its loop, or left to a rebuild.
PassedSettled ==
    \A c \in Categories, q \in log : q.cat = c /\ Passed(c, q) => Settled(q) \/ rec[c] = q \/ Rebuilding(q)

\* So is whatever precedes the record a loop holds.
HeldInOrder ==
    \A c \in Categories : rec[c] # Proj!NoRecord =>
        /\ Genuine(rec[c]) /\ rec[c].cat = c
        /\ \A q \in log : SameSource(q, rec[c]) /\ q.nr < rec[c].nr => Settled(q) \/ Rebuilding(q)

\* A pass has settled the rows it has not left.
PassInOrder == pass.left # {} => \A q \in log : q \in pass.left \/ Settled(q)

FollowInv == TailInv /\ ProjectionShape /\ Proj!NoSilentGap /\ PassedSettled /\ HeldInOrder /\ PassInOrder

LEMMA NoRecordIsNone == \A r \in AnyRow : r # Proj!NoRecord
BY DEF AnyRow, Proj!NoRecord, Proj!Row

\* What a fold does.
LEMMA FoldIs ==
    ASSUME view \in [Entities -> Seq(AnyRow)], offset \in [Categories -> [Entities -> Nat]],
           NEW r \in AnyRow, Proj!OffsetGuardedFold(r)
    PROVE  \/ /\ UNCHANGED <<view, offset, waiter>> /\ (r.nr <= offset[r.cat][r.ent] \/ r.tag = "poison")
           \/ /\ r.nr > offset[r.cat][r.ent] /\ r.tag # "poison"
              /\ view' = [view EXCEPT ![r.ent] = Append(@, r)]
              /\ offset' = [offset EXCEPT ![r.cat][r.ent] = r.nr]
              /\ waiter' = IF waiter[r.ent] = "waiting" /\ Len(view'[r.ent]) >= WaitFor
                           THEN [waiter EXCEPT ![r.ent] = "idle"] ELSE waiter
<1>1. r.cat \in Categories /\ r.ent \in Entities /\ r.nr \in Nat /\ offset[r.cat][r.ent] \in Nat
    BY DEF AnyRow
<1>2. Proj!Store.offset = offset /\ Proj!Store.view = view
    BY DEF Proj!Store
<1>3. CASE Proj!AlreadyProcessed(Proj!Store, r) \/ Proj!Throws(Proj!Store, r)
    BY <1>2, <1>3 DEF Proj!OffsetGuardedFold, Proj!AlreadyProcessed, Proj!Throws
<1>4. CASE ~(Proj!AlreadyProcessed(Proj!Store, r) \/ Proj!Throws(Proj!Store, r))
    <2>1. ~(r.nr <= offset[r.cat][r.ent]) /\ r.tag # "poison"
        BY <1>2, <1>4 DEF Proj!AlreadyProcessed, Proj!Throws
    <2>2. PICK st : /\ st = Proj!PutWithOffset(Proj!Store, r) /\ Proj!SetStore(st) /\ waiter' = Proj!Notified(st, r.ent)
        BY <1>4 DEF Proj!OffsetGuardedFold
    <2>3. /\ st.view = [view EXCEPT ![r.ent] = Append(@, r)]
          /\ st.offset = [offset EXCEPT ![r.cat][r.ent] = r.nr]
        BY <1>2, <2>1, <2>2 DEF Proj!PutWithOffset, Proj!Store
    <2>4. view' = st.view /\ offset' = st.offset
        BY <2>2 DEF Proj!SetStore
    <2>5. waiter' = IF waiter[r.ent] = "waiting" /\ Len(st.view[r.ent]) >= WaitFor
                    THEN [waiter EXCEPT ![r.ent] = "idle"] ELSE waiter
        BY <2>2 DEF Proj!Notified, Proj!Satisfied
    <2> QED BY <1>1, <2>1, <2>3, <2>4, <2>5
<1> QED BY <1>3, <1>4

\* A fold of a row all whose predecessors are settled leaves no gap.
LEMMA FoldKeepsGap ==
    ASSUME FollowInv, NEW r, Genuine(r), Proj!OffsetGuardedFold(r), UNCHANGED <<tailState, torn>>,
           \A q \in log : SameSource(q, r) /\ q.nr < r.nr => Settled(q)
    PROVE  /\ view' \in [Entities -> Seq(AnyRow)] /\ offset' \in [Categories -> [Entities -> Nat]]
           /\ \A c \in Categories, e \in Entities : offset'[c][e] <= written'[c][e] /\ offset[c][e] <= offset'[c][e]
           /\ waiter' \in [Entities -> {"idle", "waiting"}]
           /\ Proj!NoSilentGap' /\ Settled(r)' /\ \A q \in log : Settled(q) => Settled(q)'
<1>1. /\ view \in [Entities -> Seq(AnyRow)] /\ offset \in [Categories -> [Entities -> Nat]]
      /\ waiter \in [Entities -> {"idle", "waiting"}] /\ r \in AnyRow
      /\ \A c \in Categories, e \in Entities : offset[c][e] <= written[c][e]
    BY DEF FollowInv, ProjectionShape, Genuine
<1>2. r.cat \in Categories /\ r.ent \in Entities /\ r.nr \in Nat /\ r.nr <= written[r.cat][r.ent] /\ offset[r.cat][r.ent] \in Nat
    BY <1>1 DEF Genuine, AnyRow
<1>3. UNCHANGED <<log, written, reused, torn>>
    BY DEF tailState
<1>4. \A q \in log : q \in AnyRow /\ q.cat \in Categories /\ q.ent \in Entities /\ q.nr \in Nat
    BY DEF FollowInv, TailInv, Genuine, AnyRow
<1>5. \A q \in log : q.nr <= offset[q.cat][q.ent] => Proj!Folded(q) \/ torn # "no" \/ q \in reused
    BY DEF FollowInv, Proj!NoSilentGap
<1>6. CASE UNCHANGED <<view, offset, waiter>> /\ (r.nr <= offset[r.cat][r.ent] \/ r.tag = "poison")
    <2>1. Proj!NoSilentGap'
        BY <1>3, <1>5, <1>6 DEF Proj!NoSilentGap, Proj!Folded
    <2>2. \A q \in log : Settled(q) => Settled(q)'
        BY <1>3, <1>6 DEF Settled
    <2>3. Settled(r)'
        BY <1>3, <1>6 DEF Settled
    <2>4. \A c \in Categories, e \in Entities : offset'[c][e] <= written'[c][e] /\ offset[c][e] <= offset'[c][e]
        BY <1>1, <1>3, <1>6
    <2> QED BY <1>1, <1>6, <2>1, <2>2, <2>3, <2>4
<1>7. CASE /\ r.nr > offset[r.cat][r.ent] /\ r.tag # "poison"
           /\ view' = [view EXCEPT ![r.ent] = Append(@, r)]
           /\ offset' = [offset EXCEPT ![r.cat][r.ent] = r.nr]
           /\ waiter' = IF waiter[r.ent] = "waiting" /\ Len(view'[r.ent]) >= WaitFor
                        THEN [waiter EXCEPT ![r.ent] = "idle"] ELSE waiter
    <2>1. view' \in [Entities -> Seq(AnyRow)] /\ offset' \in [Categories -> [Entities -> Nat]]
          /\ waiter' \in [Entities -> {"idle", "waiting"}]
        BY <1>1, <1>2, <1>7
    <2>2. \A c \in Categories, e \in Entities :
              offset'[c][e] = IF c = r.cat /\ e = r.ent THEN r.nr ELSE offset[c][e]
        BY <1>1, <1>2, <1>7
    <2>3. \A c \in Categories, e \in Entities : offset'[c][e] <= written'[c][e] /\ offset[c][e] <= offset'[c][e]
        BY <1>1, <1>2, <1>3, <1>7, <2>2
    <2>4. ASSUME NEW q \in log, Settled(q) PROVE Settled(q)'
        <3>1. offset[q.cat][q.ent] \in Nat /\ offset'[q.cat][q.ent] \in Nat /\ offset[q.cat][q.ent] <= offset'[q.cat][q.ent] /\ q.nr \in Nat
            BY <1>1, <1>4, <2>1, <2>3
        <3> QED BY <1>3, <2>4, <3>1 DEF Settled
    <2>5. Settled(r)'
        BY <1>2, <2>2 DEF Settled
    <2>6. ASSUME NEW q \in log, Proj!Folded(q) PROVE Proj!Folded(q)'
        <3> SUFFICES ASSUME NEW k \in 1 .. Len(view[q.ent]), view[q.ent][k] = q PROVE Proj!Folded(q)'
            BY <2>6 DEF Proj!Folded
        <3>1. k \in 1 .. Len(view'[q.ent]) /\ view'[q.ent][k] = q
            BY <1>1, <1>2, <1>4, <1>7
        <3> QED BY <3>1 DEF Proj!Folded
    <2>7. Proj!Folded(r)'
        <3>1. Len(view[r.ent]) + 1 \in 1 .. Len(view'[r.ent]) /\ view'[r.ent][Len(view[r.ent]) + 1] = r
            BY <1>1, <1>2, <1>7
        <3> QED BY <3>1 DEF Proj!Folded
    <2>8. ASSUME NEW q \in log, q.nr <= offset'[q.cat][q.ent] PROVE Proj!Folded(q)' \/ torn # "no" \/ q \in reused
        <3>1. CASE q.nr <= offset[q.cat][q.ent]
            BY <1>5, <2>6, <3>1
        <3>2. CASE ~(q.nr <= offset[q.cat][q.ent])
            <4>1. SameSource(q, r) /\ q.nr <= r.nr
                BY <1>4, <2>2, <2>8, <3>2 DEF SameSource
            <4>2. CASE q.nr < r.nr
                <5>1. Settled(q)
                    BY <4>1, <4>2
                <5> QED BY <3>2, <5>1 DEF Settled, Proj!Folded
            <4>3. CASE q.nr = r.nr
                BY <2>7, <4>1, <4>3 DEF Genuine
            <4> QED BY <1>2, <1>4, <4>1, <4>2, <4>3
        <3> QED BY <3>1, <3>2
    <2>9. Proj!NoSilentGap'
        BY <1>3, <2>8 DEF Proj!NoSilentGap
    <2> QED BY <2>1, <2>3, <2>4, <2>5, <2>9
<1> QED BY <1>1, <1>6, <1>7, FoldIs

\* A step of the tails that writes nothing and is past no other row.
LEMMA QuietTailKeepsFollow ==
    ASSUME FollowInv, pass = Proj!NoPass, TailStep, UNCHANGED <<view, offset, rec, pass, waiter, torn>>,
           log' \subseteq log, UNCHANGED <<written, reused>>,
           \A c \in Categories, q \in log' : Passed(c, q)' => Passed(c, q)
    PROVE  FollowInv'
<1>1. TailInv'
    BY TailsKept DEF FollowInv
<1>2. ProjectionShape'
    BY DEF FollowInv, ProjectionShape, Proj!NoPass
<1>3. \A q : (Settled(q) <=> Settled(q)') /\ (Rebuilding(q) <=> Rebuilding(q)')
    BY DEF Settled, Rebuilding
<1>4. Proj!NoSilentGap'
    BY DEF FollowInv, Proj!NoSilentGap, Proj!Folded
<1>5. PassedSettled'
    BY <1>3 DEF FollowInv, PassedSettled
<1>6. HeldInOrder'
    <2> SUFFICES ASSUME NEW c \in Categories, rec[c] # Proj!NoRecord
                 PROVE  /\ Genuine(rec[c])' /\ rec[c].cat = c
                        /\ \A q \in log' : SameSource(q, rec[c]) /\ q.nr < rec[c].nr => Settled(q)' \/ Rebuilding(q)'
        BY DEF HeldInOrder, SameSource
    <2>1. PICK r : r = rec[c]
        OBVIOUS
    <2>2. Genuine(r)'
        BY <2>1, GenuineStays DEF FollowInv, HeldInOrder
    <2>3. Genuine(rec[c])'
        BY <2>1, <2>2
    <2> QED BY <1>3, <2>3 DEF FollowInv, HeldInOrder
<1>7. PassInOrder'
    BY DEF PassInOrder, Proj!NoPass
<1> QED BY <1>1, <1>2, <1>4, <1>5, <1>6, <1>7 DEF FollowInv

LEMMA WriteKeepsFollow ==
    ASSUME FollowInv, pass = Proj!NoPass, UNCHANGED <<view, offset, rec, pass, waiter, torn>>,
           NEW c \in Categories, NEW e \in Entities, NEW tag \in Proj!Tags, Proj!Write(c, e, tag)
    PROVE  FollowInv'
<1>0. TailStep /\ TailInv /\ pass.left = {}
    BY DEF TailStep, FollowInv, Proj!NoPass
<1>1. TailInv'
    BY <1>0, TailsKept
<1>2. PICK f : f = Fresh(c, e, tag)
    OBVIOUS
<1>3. f \in AnyRow /\ f.cat = c /\ f.ent = e /\ f.nr = written[c][e] + 1 /\ f.row \in Nat /\ f.nr \in Nat
    BY <1>0, <1>2, WriteIsFresh DEF Fresh, Proj!Row, AnyRow
<1>4. /\ log' = log \cup {f} /\ UNCHANGED backend /\ written' = [written EXCEPT ![c][e] = @ + 1]
      /\ reused \subseteq reused' /\ (f.row > top \/ f \in reused')
      /\ tail' = IF backend = "inmem" /\ tail[c].on THEN [tail EXCEPT ![c].queue = Append(@, f)] ELSE tail
    BY <1>0, <1>2, WriteIsFresh
<1>5. \A d \in Categories : tail'[d].on = tail[d].on /\ tail'[d].emitted = tail[d].emitted /\ tail'[d].cursor = tail[d].cursor
    BY <1>0, <1>4 DEF TailInv, TailShape, TailRecord
<1>6. \A q : \A d \in Categories : Passed(d, q)' <=> Passed(d, q)
    BY <1>4, <1>5 DEF Passed
<1>7. written[c][e] \in Nat /\ top \in Nat /\ tail[c] \in TailRecord
    BY <1>0 DEF TailInv, TailShape
<1>8. Passed(c, f) => f \in reused'
    <2>1. PageInv(tail[c], c) /\ SeamInv(tail[c], c) /\ tail[c].cursor \in Nat /\ tail[c].emitted[e] \in Nat
        BY <1>0, <1>7 DEF TailInv, TailRecord
    <2>2. CASE backend = "inmem"
        BY <1>3, <1>7, <2>1, <2>2 DEF Passed, SeamInv
    <2>3. CASE backend = "sqlite"
        BY <1>3, <1>4, <1>7, <2>1, <2>3 DEF Passed, PageInv
    <2> QED BY <1>0, <2>2, <2>3 DEF TailInv, TailShape
<1>9. /\ \A d \in Categories, k \in Entities : offset[d][k] \in Nat /\ written[d][k] \in Nat
      /\ \A d \in Categories, k \in Entities : offset[d][k] <= written[d][k] /\ offset'[d][k] <= written'[d][k]
    <2>1. /\ offset \in [Categories -> [Entities -> Nat]] /\ written \in [Categories -> [Entities -> Nat]]
          /\ \A d \in Categories, k \in Entities : offset[d][k] <= written[d][k]
        BY <1>0 DEF FollowInv, ProjectionShape, TailInv, TailShape
    <2>2. \A d \in Categories, k \in Entities : written'[d][k] \in Nat /\ written[d][k] <= written'[d][k]
        BY <1>4, <2>1
    <2> QED BY <2>1, <2>2
<1>10. ~(f.nr <= offset[f.cat][f.ent])
    BY <1>3, <1>7, <1>9
<1>11. ProjectionShape'
    BY <1>0, <1>9 DEF FollowInv, ProjectionShape
<1>12. \A q : (Settled(q) => Settled(q)') /\ (Rebuilding(q) => Rebuilding(q)')
    BY <1>4 DEF Settled, Rebuilding
<1>13. Proj!NoSilentGap'
    <2> SUFFICES ASSUME NEW q \in log', q.nr <= offset[q.cat][q.ent] PROVE Proj!Folded(q) \/ torn # "no" \/ q \in reused'
        BY DEF Proj!NoSilentGap, Proj!Folded
    <2>1. q \in log
        BY <1>4, <1>10
    <2> QED BY <1>4, <2>1 DEF FollowInv, Proj!NoSilentGap
<1>14. PassedSettled'
    <2> SUFFICES ASSUME NEW q \in log', q.cat \in Categories, Passed(q.cat, q)
                 PROVE  Settled(q)' \/ rec[q.cat] = q \/ Rebuilding(q)'
        BY <1>6 DEF PassedSettled
    <2>1. CASE q \in log
        BY <1>12, <2>1 DEF FollowInv, PassedSettled
    <2>2. CASE q = f
        BY <1>3, <1>8, <2>2 DEF Settled
    <2> QED BY <1>4, <2>1, <2>2
<1>15. HeldInOrder'
    <2> SUFFICES ASSUME NEW d \in Categories, rec[d] # Proj!NoRecord
                 PROVE  /\ Genuine(rec[d])' /\ rec[d].cat = d
                        /\ \A q \in log' : SameSource(q, rec[d]) /\ q.nr < rec[d].nr => Settled(q)' \/ Rebuilding(q)'
        BY DEF HeldInOrder, SameSource
    <2>1. PICK r : r = rec[d]
        OBVIOUS
    <2>2. Genuine(r) /\ r.cat = d /\ \A q \in log : SameSource(q, r) /\ q.nr < r.nr => Settled(q) \/ Rebuilding(q)
        BY <2>1 DEF FollowInv, HeldInOrder
    <2>3. Genuine(r)'
        BY <1>0, <2>2, GenuineStays
    <2>4. ~(SameSource(f, r) /\ f.nr < r.nr)
        <3>1. r.nr \in Nat /\ r.nr <= written[r.cat][r.ent]
            BY <2>2 DEF Genuine, AnyRow
        <3> QED BY <1>3, <1>7, <3>1 DEF SameSource
    <2>5. \A q \in log' : SameSource(q, r) /\ q.nr < r.nr => Settled(q)' \/ Rebuilding(q)'
        BY <1>4, <1>12, <2>2, <2>4
    <2>6. Genuine(rec[d])'
        BY <2>1, <2>3
    <2> QED BY <2>1, <2>2, <2>5, <2>6
<1>16. PassInOrder'
    BY <1>0 DEF PassInOrder
<1> QED BY <1>1, <1>11, <1>13, <1>14, <1>15, <1>16 DEF FollowInv

LEMMA TailPullKeepsFollow ==
    ASSUME FollowInv, pass = Proj!NoPass, NEW c \in Categories, Proj!TailPull(c)
    PROVE  FollowInv'
<1>1. PICK r : Proj!Yields(c, r) /\ rec' = [rec EXCEPT ![c] = r]
    BY DEF Proj!TailPull
<1>2. rec[c] = Proj!NoRecord /\ UNCHANGED <<view, offset, pass, waiter, torn>>
    BY DEF Proj!TailPull
<1>3. TailStep /\ TailInv /\ TailInv' /\ pass.left = {} /\ UNCHANGED <<backend, log, written, reused, top>>
    <2>1. TailStep /\ TailInv
        BY <1>1 DEF TailStep, FollowInv
    <2> QED BY <1>1, <2>1, TailsKept DEF Proj!NoPass, Proj!Yields
<1>4. Genuine(r) /\ r.cat = c /\ tail' = [tail EXCEPT ![c] = tail'[c]]
    BY <1>1, <1>3, PullIsEither
<1>5. /\ \A q \in log : SameSource(q, r) /\ q.nr < r.nr => Passed(c, q) \/ q \in reused
      /\ \A q \in log : q.cat = c /\ Passed(c, q)' => Passed(c, q) \/ q = r \/ q \in reused
    BY <1>1, <1>3, PullIsInOrder
<1>6. \A d \in Categories : d # c => tail'[d] = tail[d]
    BY <1>3, <1>4 DEF TailInv, TailShape
<1>7. /\ rec = [d \in Categories |-> rec[d]]
      /\ \A d \in Categories : rec'[d] = IF d = c THEN r ELSE rec[d]
    BY <1>1 DEF FollowInv, ProjectionShape
<1>8. \A q : (Settled(q) <=> Settled(q)') /\ ~Rebuilding(q) /\ ~Rebuilding(q)'
    BY <1>2, <1>3 DEF Settled, Rebuilding
<1>9. ASSUME NEW q \in log, q.cat = c, Passed(c, q) PROVE Settled(q)
    <2>1. q # Proj!NoRecord
        BY <1>3, NoRecordIsNone DEF TailInv, Genuine
    <2> QED BY <1>2, <1>8, <1>9, <2>1 DEF FollowInv, PassedSettled
<1>10. ProjectionShape'
    BY <1>1, <1>2, <1>3, <1>7 DEF FollowInv, ProjectionShape
<1>11. Proj!NoSilentGap'
    BY <1>2, <1>3 DEF FollowInv, Proj!NoSilentGap, Proj!Folded
<1>12. PassedSettled'
    <2> SUFFICES ASSUME NEW d \in Categories, NEW q \in log, q.cat = d, Passed(d, q)'
                 PROVE  Settled(q) \/ rec'[d] = q
        BY <1>3, <1>8 DEF PassedSettled
    <2>1. CASE d = c
        <3>1. Passed(c, q) \/ q = r \/ q \in reused
            BY <1>5, <2>1
        <3> QED BY <1>7, <1>9, <2>1, <3>1 DEF Settled
    <2>2. CASE d # c
        <3>1. Passed(d, q)
            BY <1>3, <1>6, <2>2 DEF Passed
        <3> QED BY <1>7, <1>8, <2>2, <3>1 DEF FollowInv, PassedSettled
    <2> QED BY <2>1, <2>2
<1>13. HeldInOrder'
    <2> SUFFICES ASSUME NEW d \in Categories, NEW h, h = rec'[d], h # Proj!NoRecord
                 PROVE  Genuine(h)' /\ h.cat = d /\ \A q \in log : SameSource(q, h) /\ q.nr < h.nr => Settled(q)
        BY <1>3, <1>8 DEF HeldInOrder, SameSource
    <2>1. CASE d = c
        <3>1. h = r /\ Genuine(h)'
            BY <1>3, <1>4, <1>7, <2>1, GenuineStays
        <3>2. \A q \in log : SameSource(q, h) /\ q.nr < h.nr => Settled(q)
            BY <1>4, <1>5, <1>9, <3>1 DEF SameSource, Settled
        <3> QED BY <1>4, <2>1, <3>1, <3>2
    <2>2. CASE d # c
        <3>1. h = rec[d] /\ Genuine(h) /\ h.cat = d /\ \A q \in log : SameSource(q, h) /\ q.nr < h.nr => Settled(q)
            BY <1>7, <1>8, <2>2 DEF FollowInv, HeldInOrder
        <3> QED BY <1>3, <3>1, GenuineStays
    <2> QED BY <2>1, <2>2
<1>14. PassInOrder'
    BY <1>2, <1>3 DEF PassInOrder
<1> QED BY <1>3, <1>10, <1>11, <1>12, <1>13, <1>14 DEF FollowInv

LEMMA TailFoldKeepsFollow ==
    ASSUME FollowInv, pass = Proj!NoPass, NEW c \in Categories, Proj!TailFold(c)
    PROVE  FollowInv'
<1>1. PICK r : r = rec[c]
    OBVIOUS
<1>2. /\ r # Proj!NoRecord /\ rec' = [rec EXCEPT ![c] = Proj!NoRecord] /\ Proj!OffsetGuardedFold(r)
      /\ UNCHANGED <<tailState, torn, pass>> /\ UNCHANGED <<backend, log, written, reused, top, tail>>
    BY <1>1 DEF Proj!TailFold, Proj!tailVars, tailState
<1>3. \A q : ~Rebuilding(q) /\ ~Rebuilding(q)'
    BY <1>2 DEF Rebuilding, Proj!NoPass
<1>4. Genuine(r) /\ r.cat = c /\ \A q \in log : SameSource(q, r) /\ q.nr < r.nr => Settled(q)
    BY <1>1, <1>2, <1>3 DEF FollowInv, HeldInOrder
<1>5. /\ view' \in [Entities -> Seq(AnyRow)] /\ offset' \in [Categories -> [Entities -> Nat]]
      /\ \A d \in Categories, e \in Entities : offset'[d][e] <= written'[d][e]
      /\ waiter' \in [Entities -> {"idle", "waiting"}]
      /\ Proj!NoSilentGap' /\ Settled(r)' /\ \A q \in log : Settled(q) => Settled(q)'
    BY <1>2, <1>4, FoldKeepsGap
<1>6. TailInv'
    BY <1>2, TailsKept DEF FollowInv, TailStep
<1>7. /\ rec = [d \in Categories |-> rec[d]]
      /\ \A d \in Categories : rec'[d] = IF d = c THEN Proj!NoRecord ELSE rec[d]
    BY <1>2 DEF FollowInv, ProjectionShape
<1>8. ProjectionShape'
    BY <1>2, <1>5, <1>7 DEF FollowInv, ProjectionShape, Proj!NoPass
<1>9. \A q : (Genuine(q) => Genuine(q)') /\ \A d \in Categories : Passed(d, q)' <=> Passed(d, q)
    BY <1>2 DEF Genuine, Passed
<1>10. PassedSettled'
    <2> SUFFICES ASSUME NEW d \in Categories, NEW q \in log, q.cat = d, Passed(d, q) PROVE Settled(q)' \/ rec'[d] = q
        BY <1>2, <1>9 DEF PassedSettled
    <2>1. Settled(q) \/ rec[d] = q
        BY <1>3 DEF FollowInv, PassedSettled
    <2>2. CASE d = c /\ rec[d] = q
        BY <1>1, <1>5, <2>2
    <2> QED BY <1>5, <1>7, <2>1, <2>2
<1>11. HeldInOrder'
    <2> SUFFICES ASSUME NEW d \in Categories, NEW h, h = rec'[d], h # Proj!NoRecord
                 PROVE  Genuine(h)' /\ h.cat = d /\ \A q \in log : SameSource(q, h) /\ q.nr < h.nr => Settled(q)'
        BY <1>2 DEF HeldInOrder, SameSource
    <2>1. h = rec[d]
        BY <1>7
    <2> QED BY <1>3, <1>5, <1>9, <2>1 DEF FollowInv, HeldInOrder
<1>12. PassInOrder'
    BY <1>2 DEF PassInOrder, Proj!NoPass
<1> QED BY <1>5, <1>6, <1>8, <1>10, <1>11, <1>12 DEF FollowInv

\* A step of a pass: the first row that is left is folded, or evolve throws on it.
LEMMA PassFoldKeepsFollow ==
    ASSUME FollowInv, Proj!PassFold
    PROVE  FollowInv'
<1>1. PICK r \in pass.left :
          /\ Proj!IsFirst(r, pass.left) /\ Proj!OffsetGuardedFold(r)
          /\ pass' = [pass EXCEPT !.left = IF Proj!Throws(Proj!Store, r) THEN {} ELSE @ \ {r}]
          /\ torn' = IF Proj!Throws(Proj!Store, r) /\ pass.of = "rebuild" THEN "evolve" ELSE torn
    BY DEF Proj!PassFold
<1>2. UNCHANGED <<tailState, rec>> /\ UNCHANGED <<backend, log, written, reused, top, tail>>
    BY DEF Proj!PassFold, Proj!tailVars, tailState
<1>3. TailInv' /\ TailInv
    BY <1>2, TailsKept DEF FollowInv, TailStep
<1>4. /\ pass = [of |-> pass.of, left |-> pass.left] /\ pass.left \subseteq log /\ r \in log
      /\ view \in [Entities -> Seq(AnyRow)] /\ offset \in [Categories -> [Entities -> Nat]]
    BY DEF FollowInv, ProjectionShape
<1>5. Genuine(r) /\ r \in AnyRow /\ r.nr \in Nat
    BY <1>3, <1>4 DEF TailInv, Genuine, AnyRow
<1>6. /\ pass'.of = pass.of /\ pass' = [of |-> pass'.of, left |-> pass'.left] /\ pass'.left \subseteq pass.left
      /\ Proj!Throws(Proj!Store, r) => pass'.left = {}
      /\ ~Proj!Throws(Proj!Store, r) => pass'.left = pass.left \ {r}
    BY <1>1, <1>4
<1>7. ASSUME NEW q \in log, SameSource(q, r), q.nr < r.nr PROVE Settled(q)
    <2>1. q.nr \in Nat
        BY <1>3 DEF TailInv, Genuine, AnyRow
    <2>2. q \notin pass.left
        <3> SUFFICES ASSUME q \in pass.left PROVE FALSE
            OBVIOUS
        <3>1. q # r
            BY <1>5, <1>7
        <3>2. r.nr < q.nr
            BY <1>1, <1>7, <3>1 DEF Proj!IsFirst, Proj!Precedes, SameSource
        <3> QED BY <1>5, <1>7, <2>1, <3>2
    <2> QED BY <2>2 DEF FollowInv, PassInOrder
<1>8. \A q : (Genuine(q) => Genuine(q)') /\ \A d \in Categories : Passed(d, q)' <=> Passed(d, q)
    BY <1>2 DEF Genuine, Passed
<1>9. CASE Proj!Throws(Proj!Store, r)
    <2>1. UNCHANGED <<view, offset, waiter>> /\ pass'.left = {}
        BY <1>1, <1>6, <1>9 DEF Proj!OffsetGuardedFold
    <2>2. torn' \in {torn, "evolve"} /\ (pass.of = "rebuild" => torn' = "evolve")
        BY <1>1, <1>9
    <2>3. \A q : (Settled(q) => Settled(q)') /\ (Rebuilding(q) => Settled(q)')
        BY <1>2, <2>1, <2>2 DEF Settled, Rebuilding
    <2>4. ProjectionShape'
        BY <1>2, <1>6, <2>1 DEF FollowInv, ProjectionShape
    <2>5. Proj!NoSilentGap'
        BY <1>2, <2>1, <2>2 DEF FollowInv, Proj!NoSilentGap, Proj!Folded
    <2>6. PassedSettled'
        BY <1>2, <1>8, <2>3 DEF FollowInv, PassedSettled
    <2>7. HeldInOrder'
        <3> SUFFICES ASSUME NEW d \in Categories, NEW h, h = rec[d], h # Proj!NoRecord
                     PROVE  Genuine(h)' /\ h.cat = d /\ \A q \in log : SameSource(q, h) /\ q.nr < h.nr => Settled(q)'
            BY <1>2 DEF HeldInOrder, SameSource
        <3> QED BY <1>8, <2>3 DEF FollowInv, HeldInOrder
    <2>8. PassInOrder'
        BY <2>1 DEF PassInOrder
    <2> QED BY <1>3, <2>4, <2>5, <2>6, <2>7, <2>8 DEF FollowInv
<1>10. CASE ~Proj!Throws(Proj!Store, r)
    <2>1. torn' = torn /\ pass'.left = pass.left \ {r}
        BY <1>1, <1>6, <1>10
    <2>2. /\ view' \in [Entities -> Seq(AnyRow)] /\ offset' \in [Categories -> [Entities -> Nat]]
          /\ \A d \in Categories, e \in Entities : offset'[d][e] <= written'[d][e]
          /\ waiter' \in [Entities -> {"idle", "waiting"}]
          /\ Proj!NoSilentGap' /\ Settled(r)' /\ \A q \in log : Settled(q) => Settled(q)'
        BY <1>1, <1>2, <1>5, <1>7, <2>1, FoldKeepsGap
    <2>3. \A q \in log : (Settled(q) \/ Rebuilding(q)) => (Settled(q)' \/ Rebuilding(q)')
        BY <1>6, <2>1, <2>2 DEF Rebuilding
    <2>4. ProjectionShape'
        BY <1>2, <1>4, <1>6, <2>2 DEF FollowInv, ProjectionShape
    <2>5. PassedSettled'
        BY <1>2, <1>8, <2>3 DEF FollowInv, PassedSettled
    <2>6. HeldInOrder'
        <3> SUFFICES ASSUME NEW d \in Categories, NEW h, h = rec[d], h # Proj!NoRecord
                     PROVE  /\ Genuine(h)' /\ h.cat = d
                            /\ \A q \in log : SameSource(q, h) /\ q.nr < h.nr => Settled(q)' \/ Rebuilding(q)'
            BY <1>2 DEF HeldInOrder, SameSource
        <3> QED BY <1>8, <2>3 DEF FollowInv, HeldInOrder
    <2>7. PassInOrder'
        <3> SUFFICES ASSUME NEW q \in log, q \notin pass'.left PROVE Settled(q)'
            BY <1>2 DEF PassInOrder
        <3>1. CASE q = r
            BY <2>2, <3>1
        <3>2. CASE q # r
            BY <1>1, <2>1, <2>2, <3>2 DEF FollowInv, PassInOrder
        <3> QED BY <3>1, <3>2
    <2> QED BY <1>3, <2>2, <2>4, <2>5, <2>6, <2>7 DEF FollowInv
<1> QED BY <1>9, <1>10

\* A pass that begins or ends, and a rebuild, which empties the store first.
LEMMA PassTurnKeepsFollow ==
    ASSUME FollowInv, Proj!PassEnds \/ (pass = Proj!NoPass /\ Proj!Cycle) \/ (pass = Proj!NoPass /\ Proj!Rebuild)
    PROVE  FollowInv'
<1>1. UNCHANGED tailState /\ UNCHANGED <<backend, log, written, reused, top, tail, rec, waiter>>
    BY DEF Proj!PassEnds, Proj!Cycle, Proj!Rebuild, Proj!tailVars, tailState
<1>2. TailInv' /\ TailInv
    BY <1>1, TailsKept DEF FollowInv, TailStep
<1>3. \A q : (Genuine(q) => Genuine(q)') /\ \A d \in Categories : Passed(d, q)' <=> Passed(d, q)
    BY <1>1 DEF Genuine, Passed
<1>4. CASE Proj!PassEnds \/ (pass = Proj!NoPass /\ Proj!Cycle)
    <2>1. UNCHANGED <<view, offset, torn>>
        BY <1>4 DEF Proj!PassEnds, Proj!Cycle
    <2>2. /\ pass' = [of |-> pass'.of, left |-> pass'.left] /\ pass'.left \subseteq log
          /\ pass'.left = {} \/ pass'.left = log
          /\ \A q : ~Rebuilding(q)
        BY <1>4 DEF Proj!PassEnds, Proj!Cycle, Rebuilding, Proj!NoPass
    <2>3. \A q : Settled(q) => Settled(q)'
        BY <1>1, <2>1 DEF Settled
    <2>4. ProjectionShape'
        BY <1>1, <2>1, <2>2 DEF FollowInv, ProjectionShape
    <2>5. Proj!NoSilentGap'
        BY <1>1, <2>1 DEF FollowInv, Proj!NoSilentGap, Proj!Folded
    <2>6. PassedSettled'
        BY <1>1, <1>3, <2>2, <2>3 DEF FollowInv, PassedSettled
    <2>7. HeldInOrder'
        <3> SUFFICES ASSUME NEW d \in Categories, NEW h, h = rec[d], h # Proj!NoRecord
                     PROVE  Genuine(h)' /\ h.cat = d /\ \A q \in log : SameSource(q, h) /\ q.nr < h.nr => Settled(q)'
            BY <1>1 DEF HeldInOrder, SameSource
        <3> QED BY <1>3, <2>2, <2>3 DEF FollowInv, HeldInOrder
    <2>8. PassInOrder'
        BY <1>1, <2>2 DEF PassInOrder
    <2> QED BY <1>2, <2>4, <2>5, <2>6, <2>7, <2>8 DEF FollowInv
<1>5. CASE pass = Proj!NoPass /\ Proj!Rebuild
    <2>1. /\ view' = [e \in Entities |-> << >>] /\ offset' = [c \in Categories |-> [e \in Entities |-> 0]]
          /\ pass' = [of |-> "rebuild", left |-> log]
        BY <1>5 DEF Proj!Rebuild, Proj!Clear, Proj!SetStore, Proj!EmptyStore
    <2>2. \A q \in log : Rebuilding(q)'
        BY <2>1 DEF Rebuilding
    <2>3. view' \in [Entities -> Seq(AnyRow)] /\ offset' \in [Categories -> [Entities -> Nat]]
        BY <2>1
    <2>4. \A c \in Categories, e \in Entities : offset'[c][e] <= written'[c][e]
        BY <1>1, <1>2, <2>1 DEF TailInv, TailShape
    <2>5. ProjectionShape'
        BY <1>1, <2>1, <2>3, <2>4 DEF FollowInv, ProjectionShape
    <2>6. Proj!NoSilentGap'
        <3>1. \A q \in log : q.nr \in Nat \ {0} /\ q.cat \in Categories /\ q.ent \in Entities
            BY <1>2 DEF TailInv, Genuine, AnyRow
        <3>2. \A q \in log : ~(q.nr <= offset'[q.cat][q.ent])
            BY <2>1, <3>1
        <3> QED BY <1>1, <3>2 DEF Proj!NoSilentGap
    <2>7. PassedSettled'
        BY <1>1, <2>2 DEF PassedSettled
    <2>8. HeldInOrder'
        <3> SUFFICES ASSUME NEW d \in Categories, NEW h, h = rec[d], h # Proj!NoRecord PROVE Genuine(h)' /\ h.cat = d
            BY <1>1, <2>2 DEF HeldInOrder, SameSource
        <3> QED BY <1>3 DEF FollowInv, HeldInOrder
    <2>9. PassInOrder'
        BY <1>1, <2>1 DEF PassInOrder
    <2> QED BY <1>2, <2>5, <2>6, <2>7, <2>8, <2>9 DEF FollowInv
<1> QED BY <1>4, <1>5

\* A crash, in a pass too, and one between the two deletes of clear.
LEMMA CrashKeepsFollow ==
    ASSUME FollowInv, Proj!Crash \/ Proj!CrashInClear
    PROVE  FollowInv'
<1>1. /\ Proj!TailsDie /\ rec' = [c \in Categories |-> Proj!NoRecord] /\ pass' = Proj!NoPass
      /\ waiter' = [e \in Entities |-> "idle"]
    BY DEF Proj!Crash, Proj!CrashInClear, Proj!Dies
<1>2. TailInv' /\ TailInv /\ UNCHANGED <<backend, log, written, reused, top>>
    BY <1>1, TailsKept DEF FollowInv, TailStep, Proj!TailsDie
<1>3. \A c \in Categories, q \in log : ~Passed(c, q)'
    BY <1>1, <1>2, DeathKeepsTails
<1>4. pass'.left = {} /\ pass' = [of |-> pass'.of, left |-> pass'.left]
    BY <1>1 DEF Proj!NoPass
<1>5. /\ offset' = offset /\ view' \in [Entities -> Seq(AnyRow)]
      /\ UNCHANGED <<view, torn>> \/ torn' = "clear"
    <2>1. CASE Proj!Crash
        BY <2>1 DEF Proj!Crash, FollowInv, ProjectionShape
    <2>2. CASE Proj!CrashInClear
        <3>1. PICK st : st = [Proj!EmptyStore EXCEPT !.offset = offset]
            OBVIOUS
        <3>2. st.offset = offset /\ st.view = [e \in Entities |-> << >>]
            BY <3>1 DEF Proj!EmptyStore
        <3>3. offset' = st.offset /\ view' = st.view /\ torn' = "clear"
            BY <2>2, <3>1 DEF Proj!CrashInClear, Proj!SetStore
        <3> QED BY <3>2, <3>3
    <2> QED BY <2>1, <2>2
<1>6. ProjectionShape'
    BY <1>1, <1>2, <1>4, <1>5 DEF FollowInv, ProjectionShape
<1>7. Proj!NoSilentGap'
    BY <1>2, <1>5 DEF FollowInv, Proj!NoSilentGap, Proj!Folded
<1>8. PassedSettled' /\ HeldInOrder' /\ PassInOrder'
    BY <1>1, <1>2, <1>3, <1>4 DEF PassedSettled, HeldInOrder, PassInOrder
<1> QED BY <1>2, <1>6, <1>7, <1>8 DEF FollowInv

LEMMA StepKeepsFollow == FollowInv /\ [Proj!Next]_<<tailState, projectionState>> => FollowInv'
<1> SUFFICES ASSUME FollowInv, [Proj!Next]_<<tailState, projectionState>> PROVE FollowInv'
    OBVIOUS
<1>1. ASSUME UNCHANGED <<tailState, view, offset, rec, pass, torn>>, waiter' \in [Entities -> {"idle", "waiting"}] PROVE FollowInv'
    <2>1. TailInv' /\ UNCHANGED <<backend, log, written, reused, top, tail>>
        BY <1>1, TailsKept DEF FollowInv, TailStep, tailState
    <2>2. \A q : /\ Genuine(q) <=> Genuine(q)'
                 /\ Settled(q) <=> Settled(q)'
                 /\ Rebuilding(q) <=> Rebuilding(q)'
                 /\ \A d \in Categories : Passed(d, q)' <=> Passed(d, q)
        BY <1>1, <2>1 DEF Genuine, Passed, Settled, Rebuilding
    <2>3. ProjectionShape' /\ Proj!NoSilentGap'
        BY <1>1, <2>1 DEF FollowInv, ProjectionShape, Proj!NoSilentGap, Proj!Folded
    <2>4. PassedSettled' /\ PassInOrder'
        BY <1>1, <2>1, <2>2 DEF FollowInv, PassedSettled, PassInOrder
    <2>5. HeldInOrder'
        <3> SUFFICES ASSUME NEW d \in Categories, NEW h, h = rec[d], h # Proj!NoRecord
                     PROVE  /\ Genuine(h)' /\ h.cat = d
                            /\ \A q \in log : SameSource(q, h) /\ q.nr < h.nr => Settled(q)' \/ Rebuilding(q)'
            BY <1>1, <2>1 DEF HeldInOrder, SameSource
        <3> QED BY <2>2 DEF FollowInv, HeldInOrder
    <2> QED BY <2>1, <2>3, <2>4, <2>5 DEF FollowInv
<1>2. TailInv /\ waiter \in [Entities -> {"idle", "waiting"}]
    BY DEF FollowInv, ProjectionShape
<1>3. CASE UNCHANGED <<tailState, projectionState>>
    BY <1>1, <1>2, <1>3 DEF projectionState
<1>4. CASE pass = Proj!NoPass /\ Proj!Elsewhere
    <2>1. ASSUME NEW c \in Categories, NEW e \in Entities, NEW tag \in {"on", "poison"}, Proj!Write(c, e, tag), UNCHANGED Proj!projVars
          PROVE  FollowInv'
        BY <1>4, <2>1, WriteKeepsFollow DEF Proj!projVars, Proj!Tags
    <2>2. ASSUME NEW c \in Categories, Proj!Subscribe(c) \/ Proj!FetchPage(c) \/ Proj!DeleteBefore(c), UNCHANGED Proj!projVars
          PROVE  FollowInv'
        <3>1. TailStep /\ UNCHANGED <<view, offset, rec, pass, waiter, torn>>
            BY <2>2 DEF TailStep, Proj!projVars
        <3>2. log' \subseteq log /\ UNCHANGED <<backend, written, reused>>
            BY <2>2 DEF Proj!Subscribe, Proj!FetchPage, Proj!DeleteBefore
        <3>3. \A q \in log' : Passed(c, q)' => Passed(c, q)
            <4>1. CASE Proj!Subscribe(c)
                BY <1>2, <3>2, <4>1, SubscribeKeepsTails
            <4>2. CASE Proj!FetchPage(c)
                BY <1>2, <3>2, <4>2, FetchKeepsTails
            <4>3. CASE Proj!DeleteBefore(c)
                BY <4>3 DEF Proj!DeleteBefore, Passed
            <4> QED BY <2>2, <4>1, <4>2, <4>3
        <3>4. \A d \in Categories : d # c => tail'[d] = tail[d]
            BY <1>2, <2>2 DEF Proj!Subscribe, Proj!OpenTail, Proj!FetchPage, Proj!DeleteBefore, TailInv, TailShape
        <3>5. \A d \in Categories, q \in log' : Passed(d, q)' => Passed(d, q)
            BY <3>2, <3>3, <3>4 DEF Passed
        <3> QED BY <1>4, <3>1, <3>2, <3>5, QuietTailKeepsFollow
    <2>3. ASSUME NEW c \in Categories, Proj!TailPull(c) \/ Proj!TailFold(c) PROVE FollowInv'
        BY <1>4, <2>3, TailPullKeepsFollow, TailFoldKeepsFollow
    <2>4. ASSUME Proj!PollTick \/ Proj!RunOnce \/ Proj!Microtask \/ Proj!Start \/ Proj!Stop PROVE FollowInv'
        <3>1. CASE Proj!Cycle
            BY <1>4, <3>1, PassTurnKeepsFollow
        <3>2. CASE ~Proj!Cycle
            BY <1>1, <1>2, <2>4, <3>2 DEF Proj!PollTick, Proj!RunOnce, Proj!Microtask, Proj!Start, Proj!Stop, Proj!tailVars, tailState
        <3> QED BY <3>1, <3>2
    <2>5. ASSUME NEW e \in Entities, Proj!Await(e) \/ Proj!AwaitTimeout(e) PROVE FollowInv'
        <3>1. waiter' \in [Entities -> {"idle", "waiting"}]
            BY <1>2, <2>5 DEF Proj!Await, Proj!AwaitTimeout
        <3> QED BY <1>1, <2>5, <3>1 DEF Proj!Await, Proj!AwaitTimeout, Proj!tailVars, tailState
    <2> QED BY <1>4, <2>1, <2>2, <2>3, <2>4, <2>5, PassTurnKeepsFollow, CrashKeepsFollow DEF Proj!Elsewhere
<1>5. CASE Proj!Nudge
    BY <1>1, <1>2, <1>5 DEF Proj!Nudge, Proj!tailVars, tailState
<1> QED BY <1>3, <1>4, <1>5, PassFoldKeepsFollow, PassTurnKeepsFollow, CrashKeepsFollow DEF Proj!Next

LEMMA InitFollows == Init => FollowInv
<1> SUFFICES ASSUME Init PROVE FollowInv
    OBVIOUS
<1>1. Proj!Init
    BY DEF Init
<1>2. TailInv /\ log = {} /\ written = [c \in Categories |-> [e \in Entities |-> 0]]
    BY <1>1, TailsStart DEF Proj!Init, Proj!TailInit
<1>3. ProjectionShape
    BY <1>1, <1>2 DEF Proj!Init, Proj!EmptyStore, Proj!NoPass, ProjectionShape
<1> QED BY <1>1, <1>2, <1>3 DEF FollowInv, Proj!Init, Proj!NoPass, Proj!NoSilentGap, PassedSettled, HeldInOrder, PassInOrder

-----------------------------------------------------------------------------
(* Projections: no waiter is left behind.                                   *)

WaitInv == FollowInv /\ Proj!NoWaiterLeftBehind

LEMMA WaitersKept == WaitInv /\ [Proj!Next]_<<tailState, projectionState>> => WaitInv'
<1> SUFFICES ASSUME WaitInv, [Proj!Next]_<<tailState, projectionState>> PROVE WaitInv'
    OBVIOUS
<1>1. FollowInv' /\ FollowInv
    BY StepKeepsFollow DEF WaitInv
<1>2. \A e \in Entities : waiter[e] = "waiting" => ~(Len(view[e]) >= WaitFor) \/ view[e] = << >>
    BY DEF WaitInv, Proj!NoWaiterLeftBehind, Proj!Satisfied, Proj!Store
<1> SUFFICES \A e \in Entities : waiter'[e] = "waiting" => ~(Len(view'[e]) >= WaitFor) \/ view'[e] = << >>
    BY <1>1 DEF WaitInv, Proj!NoWaiterLeftBehind, Proj!Satisfied, Proj!Store
<1> DEFINE Kept == \A e \in Entities : waiter'[e] = "waiting" => ~(Len(view'[e]) >= WaitFor) \/ view'[e] = << >>
<1>3. view \in [Entities -> Seq(AnyRow)] /\ offset \in [Categories -> [Entities -> Nat]] /\ waiter \in [Entities -> {"idle", "waiting"}]
    BY <1>1 DEF FollowInv, ProjectionShape
<1>4. ASSUME UNCHANGED <<view, waiter>> PROVE Kept
    BY <1>2, <1>4
<1>5. ASSUME NEW r \in AnyRow, Proj!OffsetGuardedFold(r) PROVE Kept
    <2>1. CASE UNCHANGED <<view, offset, waiter>>
        BY <1>4, <2>1
    <2>2. CASE /\ view' = [view EXCEPT ![r.ent] = Append(@, r)]
               /\ waiter' = IF waiter[r.ent] = "waiting" /\ Len(view'[r.ent]) >= WaitFor
                            THEN [waiter EXCEPT ![r.ent] = "idle"] ELSE waiter
        <3> SUFFICES ASSUME NEW e \in Entities, waiter'[e] = "waiting" PROVE ~(Len(view'[e]) >= WaitFor) \/ view'[e] = << >>
            OBVIOUS
        <3>1. CASE e = r.ent
            BY <1>3, <2>2, <3>1
        <3>2. CASE e # r.ent
            BY <1>2, <1>3, <2>2, <3>2
        <3> QED BY <3>1, <3>2
    <2> QED BY <1>3, <1>5, <2>1, <2>2, FoldIs
<1>6. ASSUME NEW c \in Categories, Proj!TailFold(c) PROVE Kept
    <2>1. rec[c] \in AnyRow /\ Proj!OffsetGuardedFold(rec[c])
        BY <1>1, <1>6 DEF Proj!TailFold, FollowInv, HeldInOrder, Genuine
    <2> QED BY <1>5, <2>1
<1>7. CASE Proj!PassFold
    <2>1. PICK r \in pass.left : Proj!OffsetGuardedFold(r)
        BY <1>7 DEF Proj!PassFold
    <2>2. r \in AnyRow
        BY <1>1, <2>1 DEF FollowInv, ProjectionShape, TailInv, Genuine
    <2> QED BY <1>5, <2>1, <2>2
<1>8. CASE Proj!Rebuild
    BY <1>8 DEF Proj!Rebuild, Proj!Clear, Proj!SetStore, Proj!EmptyStore
<1>9. CASE Proj!Crash \/ Proj!CrashInClear
    BY <1>9 DEF Proj!Crash, Proj!CrashInClear, Proj!Dies
<1>10. ASSUME NEW e \in Entities, Proj!Await(e) PROVE Kept
    <2>1. view' = view /\ waiter' = [waiter EXCEPT ![e] = IF Len(view[e]) >= WaitFor /\ view[e] # << >> THEN "idle" ELSE "waiting"]
        BY <1>10 DEF Proj!Await, Proj!Satisfied, Proj!Store
    <2> QED BY <1>2, <1>3, <2>1
<1>11. ASSUME NEW e \in Entities, Proj!AwaitTimeout(e) PROVE Kept
    BY <1>2, <1>3, <1>11 DEF Proj!AwaitTimeout
<1>12. CASE \/ UNCHANGED projectionState \/ Proj!PassEnds \/ Proj!Nudge \/ Proj!PollTick \/ Proj!RunOnce \/ Proj!Microtask
            \/ Proj!Start \/ Proj!Stop \/ \E c \in Categories : Proj!TailPull(c)
    BY <1>4, <1>12 DEF projectionState, Proj!PassEnds, Proj!Nudge, Proj!PollTick, Proj!RunOnce, Proj!Microtask, Proj!Cycle,
                       Proj!Start, Proj!Stop, Proj!TailPull
<1>13. CASE UNCHANGED Proj!projVars
    BY <1>4, <1>13 DEF Proj!projVars
<1> QED BY <1>6, <1>7, <1>8, <1>9, <1>10, <1>11, <1>12, <1>13 DEF Proj!Next, Proj!Elsewhere

\* A step of the composition is one of the projection, where it is deployed, or leaves it alone.
LEMMA ProjectionSteps ==
    ASSUME [Next]_vars
    PROVE  deployed' = deployed /\ (deployed = "projection" => [Proj!Next]_<<tailState, projectionState>>)
BY DEF Next, vars, ProjectionRuns, SagaRuns, ClientRuns, CommandsRun, FeedsRun, BridgeRuns, HaRuns, WindowsRun

\* Where a projection is deployed: no stored event at or below an offset is missing from its
\* view, unless it is one evolve threw on, stands under a reused row number, or the last rebuild
\* ended early; and no awaitView call waits over a view that satisfies it.
THEOREM ProjectionIsSound == Spec => []ProjectionSound
<1> DEFINE Inv == deployed = "projection" => WaitInv
<1>1. Init => Inv
    BY InitFollows DEF Init, Proj!Init, WaitInv, Proj!NoWaiterLeftBehind
<1>2. Inv /\ [Next]_vars => Inv'
    BY ProjectionSteps, WaitersKept
<1>3. Inv => ProjectionSound
    BY DEF WaitInv, FollowInv, ProjectionSound
<1> QED BY <1>1, <1>2, <1>3, PTL DEF Spec

-----------------------------------------------------------------------------
(* Projections implement ViewSpec.                                          *)

\* The rows of one source in a view q: in order, none above the offset n.
SourceInOrder(q, c, n) ==
    /\ \A i, j \in 1 .. Len(q) : i < j /\ q[i].cat = c /\ q[j].cat = c => q[i].nr < q[j].nr
    /\ \A i \in 1 .. Len(q) : q[i].cat = c => q[i].nr <= n

\* The offset n is the number of one of them.
OffsetKept(q, c, n) == n = 0 \/ \E i \in 1 .. Len(q) : q[i].cat = c /\ q[i].nr = n

ViewInv ==
    /\ FollowInv
    /\ pass.of = "rebuild" => torn # "clear"
    /\ \A c \in Categories, e \in Entities :
          /\ SourceInOrder(view[e], c, offset[c][e])
          /\ torn = "clear" \/ OffsetKept(view[e], c, offset[c][e])

\* A fold appends a row above the offset.
LEMMA AppendInOrder ==
    ASSUME NEW q \in Seq(AnyRow), NEW c, NEW n \in Nat, NEW r \in AnyRow, SourceInOrder(q, c, n)
    PROVE  /\ r.cat # c => SourceInOrder(Append(q, r), c, n) /\ (OffsetKept(q, c, n) => OffsetKept(Append(q, r), c, n))
           /\ r.cat = c /\ r.nr > n => SourceInOrder(Append(q, r), c, r.nr) /\ OffsetKept(Append(q, r), c, r.nr)
<1>1. PICK p : p = Append(q, r)
    OBVIOUS
<1>2. /\ Len(q) \in Nat /\ Len(p) = Len(q) + 1 /\ p[Len(q) + 1] = r /\ r.nr \in Nat
      /\ \A i \in 1 .. Len(q) : i \in 1 .. Len(p) /\ p[i] = q[i]
    <2>1. /\ Len(q) \in Nat /\ Len(p) = Len(q) + 1 /\ p[Len(q) + 1] = r
          /\ \A i \in 1 .. Len(q) : p[i] = q[i]
        BY <1>1
    <2>2. \A i \in 1 .. Len(q) : i \in 1 .. Len(p)
        BY <2>1
    <2>3. r.nr \in Nat
        BY DEF AnyRow
    <2> QED BY <2>1, <2>2, <2>3
<1>3. \A i \in 1 .. Len(q) : q[i].nr \in Nat
    <2>1. \A i \in 1 .. Len(q) : q[i] \in AnyRow
        OBVIOUS
    <2>2. \A x \in AnyRow : x.nr \in Nat
        BY DEF AnyRow
    <2> QED BY <2>1, <2>2
<1>4. \A i \in 1 .. Len(p) : i \in 1 .. Len(q) \/ i = Len(q) + 1
    BY <1>2
<1>5. ASSUME r.cat # c PROVE SourceInOrder(p, c, n) /\ (OffsetKept(q, c, n) => OffsetKept(p, c, n))
    <2>1. \A i \in 1 .. Len(p) : p[i].cat = c => i \in 1 .. Len(q) /\ p[i] = q[i]
        BY <1>2, <1>4, <1>5
    <2>2. SourceInOrder(p, c, n)
        BY <2>1 DEF SourceInOrder
    <2> QED BY <1>2, <2>2 DEF OffsetKept
<1>6. ASSUME r.cat = c, r.nr > n PROVE SourceInOrder(p, c, r.nr) /\ OffsetKept(p, c, r.nr)
    <2>1. ASSUME NEW i \in 1 .. Len(q), q[i].cat = c PROVE q[i].nr < r.nr /\ q[i].nr <= r.nr
        <3>1. q[i].nr \in Nat /\ q[i].nr <= n
            BY <1>3, <2>1 DEF SourceInOrder
        <3> QED BY <1>2, <1>6, <3>1
    <2>2. ASSUME NEW i \in 1 .. Len(p), NEW j \in 1 .. Len(p), i < j, p[i].cat = c, p[j].cat = c PROVE p[i].nr < p[j].nr
        <3>1. i \in 1 .. Len(q)
            BY <1>2, <2>2
        <3>2. CASE j \in 1 .. Len(q)
            BY <1>2, <2>2, <3>1, <3>2 DEF SourceInOrder
        <3>3. CASE j = Len(q) + 1
            BY <1>2, <2>1, <2>2, <3>1, <3>3
        <3> QED BY <1>4, <3>2, <3>3
    <2>3. \A i \in 1 .. Len(p) : p[i].cat = c => p[i].nr <= r.nr
        BY <1>2, <1>4, <2>1
    <2>4. Len(q) + 1 \in 1 .. Len(p) /\ p[Len(q) + 1].cat = c /\ p[Len(q) + 1].nr = r.nr
        BY <1>2, <1>6
    <2> QED BY <2>2, <2>3, <2>4 DEF SourceInOrder, OffsetKept
<1> QED BY <1>1, <1>5, <1>6

\* What a step does to the views.
Folds ==
    /\ UNCHANGED era /\ (torn' = "clear" <=> torn = "clear")
    /\ \E r \in AnyRow : /\ r.nr > offset[r.cat][r.ent]
                         /\ view' = [view EXCEPT ![r.ent] = Append(@, r)]
                         /\ offset' = [offset EXCEPT ![r.cat][r.ent] = r.nr]

Empties ==
    /\ view' = [e \in Entities |-> << >>] /\ era' = era + 1
    /\ torn' = "clear" \/ offset' = [c \in Categories |-> [e \in Entities |-> 0]]

Leaves == UNCHANGED <<view, offset, era>> /\ (torn' = "clear" <=> torn = "clear")

LEMMA StepOnViews ==
    ASSUME ViewInv, [Proj!Next]_<<tailState, projectionState>>
    PROVE  /\ Folds \/ Empties \/ Leaves
           /\ pass'.of = "rebuild" => torn' # "clear"
<1>1. FollowInv /\ view \in [Entities -> Seq(AnyRow)] /\ offset \in [Categories -> [Entities -> Nat]]
    BY DEF ViewInv, FollowInv, ProjectionShape
<1>2. ASSUME NEW r \in AnyRow, Proj!OffsetGuardedFold(r), UNCHANGED era, torn' = "clear" <=> torn = "clear" PROVE Folds \/ Leaves
    BY <1>1, <1>2, FoldIs DEF Folds, Leaves
<1>3. ASSUME NEW c \in Categories, Proj!TailFold(c)
      PROVE  (Folds \/ Leaves) /\ (pass'.of = "rebuild" => torn' # "clear")
    <2>1. rec[c] \in AnyRow /\ Proj!OffsetGuardedFold(rec[c]) /\ UNCHANGED <<era, torn, pass>>
        BY <1>1, <1>3 DEF Proj!TailFold, FollowInv, HeldInOrder, Genuine
    <2> QED BY <1>2, <2>1 DEF ViewInv
<1>4. CASE Proj!PassFold
    <2>1. PICK r \in pass.left :
              /\ Proj!OffsetGuardedFold(r)
              /\ pass' = [pass EXCEPT !.left = IF Proj!Throws(Proj!Store, r) THEN {} ELSE @ \ {r}]
              /\ torn' = IF Proj!Throws(Proj!Store, r) /\ pass.of = "rebuild" THEN "evolve" ELSE torn
        BY <1>4 DEF Proj!PassFold
    <2>2. r \in AnyRow /\ pass = [of |-> pass.of, left |-> pass.left]
        BY <1>1, <2>1 DEF FollowInv, ProjectionShape, TailInv, Genuine
    <2>3. pass'.of = pass.of /\ UNCHANGED era
        BY <1>4, <2>1, <2>2 DEF Proj!PassFold
    <2>4. torn' = "clear" <=> torn = "clear"
        BY <2>1 DEF ViewInv
    <2>5. pass'.of = "rebuild" => torn' # "clear"
        BY <2>3, <2>4 DEF ViewInv
    <2> QED BY <1>2, <2>1, <2>2, <2>3, <2>4, <2>5
<1>5. CASE Proj!Rebuild
    BY <1>5 DEF Proj!Rebuild, Proj!Clear, Proj!SetStore, Proj!EmptyStore, Empties
<1>6. CASE Proj!CrashInClear
    <2>1. PICK st : st = [Proj!EmptyStore EXCEPT !.offset = offset] /\ Proj!SetStore(st)
        BY <1>6 DEF Proj!CrashInClear
    <2>2. st.view = [e \in Entities |-> << >>]
        BY <2>1 DEF Proj!EmptyStore
    <2>3. view' = st.view /\ torn' = "clear" /\ era' = era + 1 /\ pass' = Proj!NoPass
        BY <1>6, <2>1 DEF Proj!CrashInClear, Proj!SetStore, Proj!Dies
    <2> QED BY <2>2, <2>3 DEF Empties, Proj!NoPass
<1>7. CASE Proj!Crash \/ Proj!PassEnds
    BY <1>7 DEF Proj!Crash, Proj!Dies, Proj!PassEnds, Proj!NoPass, Leaves
<1>8. CASE Proj!PollTick \/ Proj!RunOnce \/ (Proj!Microtask /\ Proj!Cycle)
    BY <1>8 DEF Proj!PollTick, Proj!RunOnce, Proj!Cycle, Leaves
<1>9. CASE \/ UNCHANGED projectionState \/ Proj!Nudge \/ (Proj!Microtask /\ ~Proj!Cycle)
           \/ Proj!Start \/ Proj!Stop \/ (\E c \in Categories : Proj!TailPull(c))
           \/ (\E e \in Entities : Proj!Await(e) \/ Proj!AwaitTimeout(e)) \/ UNCHANGED Proj!projVars
    <2>1. UNCHANGED <<view, offset, era, torn, pass>>
        BY <1>9 DEF projectionState, Proj!Nudge, Proj!Microtask, Proj!Start, Proj!Stop, Proj!TailPull, Proj!Await,
                    Proj!AwaitTimeout, Proj!projVars
    <2> QED BY <2>1 DEF Leaves, ViewInv
<1> QED BY <1>3, <1>4, <1>5, <1>6, <1>7, <1>8, <1>9 DEF Proj!Next, Proj!Elsewhere

LEMMA ViewsKept == ViewInv /\ [Proj!Next]_<<tailState, projectionState>> => ViewInv'
<1> SUFFICES ASSUME ViewInv, [Proj!Next]_<<tailState, projectionState>> PROVE ViewInv'
    OBVIOUS
<1>1. FollowInv' /\ FollowInv
    BY StepKeepsFollow DEF ViewInv
<1>2. pass'.of = "rebuild" => torn' # "clear"
    BY StepOnViews
<1>3. view \in [Entities -> Seq(AnyRow)] /\ offset \in [Categories -> [Entities -> Nat]]
    BY <1>1 DEF FollowInv, ProjectionShape
<1>4. ASSUME NEW c \in Categories, NEW e \in Entities
      PROVE  /\ SourceInOrder(view'[e], c, offset'[c][e])
             /\ torn' = "clear" \/ OffsetKept(view'[e], c, offset'[c][e])
    <2>1. PICK q, n : q = view[e] /\ n = offset[c][e]
        OBVIOUS
    <2>2. q \in Seq(AnyRow) /\ n \in Nat /\ SourceInOrder(q, c, n) /\ (torn = "clear" \/ OffsetKept(q, c, n))
        BY <1>3, <2>1 DEF ViewInv
    <2>3. CASE Folds
        <3>1. PICK r \in AnyRow : /\ r.nr > offset[r.cat][r.ent]
                                  /\ view' = [view EXCEPT ![r.ent] = Append(@, r)]
                                  /\ offset' = [offset EXCEPT ![r.cat][r.ent] = r.nr]
            BY <2>3 DEF Folds
        <3>2. r.cat \in Categories /\ r.ent \in Entities
            BY DEF AnyRow
        <3>3. CASE r.ent # e
            <4>1. view'[e] = q /\ offset'[c][e] = n
                BY <1>3, <2>1, <3>1, <3>2, <3>3
            <4> QED BY <2>2, <2>3, <4>1 DEF Folds
        <3>4. CASE r.ent = e /\ r.cat # c
            <4>1. view'[e] = Append(q, r) /\ offset'[c][e] = n
                BY <1>3, <2>1, <3>1, <3>2, <3>4
            <4>2. SourceInOrder(Append(q, r), c, n)
                BY <2>2, <3>4, AppendInOrder
            <4>3. OffsetKept(q, c, n) => OffsetKept(Append(q, r), c, n)
                BY <2>2, <3>4, AppendInOrder
            <4>4. torn' = "clear" <=> torn = "clear"
                BY <2>3 DEF Folds
            <4> QED BY <2>2, <4>1, <4>2, <4>3, <4>4
        <3>5. CASE r.ent = e /\ r.cat = c
            <4>1. view'[e] = Append(q, r) /\ offset'[c][e] = r.nr /\ r.nr > n
                BY <1>3, <2>1, <3>1, <3>2, <3>5
            <4> QED BY <2>2, <3>5, <4>1, AppendInOrder
        <3> QED BY <3>3, <3>4, <3>5
    <2>4. CASE Empties
        <3>1. view'[e] = << >> /\ (torn' = "clear" \/ offset'[c][e] = 0)
            BY <2>4 DEF Empties
        <3> QED BY <3>1 DEF SourceInOrder, OffsetKept
    <2>5. CASE Leaves
        BY <2>1, <2>2, <2>5 DEF Leaves
    <2> QED BY <2>3, <2>4, <2>5, StepOnViews
<1> QED BY <1>1, <1>2, <1>4 DEF ViewInv

\* The view documents and the offsets as ViewSpec sees them.
FoldedOf(q, e) == [k \in 1 .. Len(q) |-> [src |-> <<q[k].cat, e>>, nr |-> q[k].nr]]

LEMMA FoldedViews ==
    ASSUME NEW q \in Seq(AnyRow), NEW e
    PROVE  /\ Len(FoldedOf(q, e)) = Len(q) /\ Len(q) \in Nat
           /\ \A i \in 1 .. Len(q) : /\ FoldedOf(q, e)[i].src = <<q[i].cat, e>>
                                     /\ FoldedOf(q, e)[i].nr = q[i].nr
BY DEF FoldedOf

LEMMA ViewsAreLegit == ViewInv => Proj!Abstract!Legit
<1> SUFFICES ASSUME ViewInv, NEW s \in Proj!ViewSources
             PROVE  Proj!Abstract!InOrder(s) /\ (torn = "clear" \/ Proj!Abstract!Kept(s))
    BY DEF Proj!Abstract!Legit
<1>1. PICK c \in Categories, e \in Entities : s = <<c, e>>
    BY DEF Proj!ViewSources
<1>2. view[e] \in Seq(AnyRow)
    BY DEF ViewInv, FollowInv, ProjectionShape
<1>3. PICK q, n, f : q = view[e] /\ n = offset[c][e] /\ f = FoldedOf(q, e)
    OBVIOUS
<1>4. /\ Len(f) = Len(q)
      /\ \A i \in 1 .. Len(q) : f[i].src = <<q[i].cat, e>> /\ f[i].nr = q[i].nr
    BY <1>2, <1>3, FoldedViews
<1>5. \A i \in 1 .. Len(q) : f[i].src = s <=> q[i].cat = c
    BY <1>1, <1>4
<1>6. PICK P : P = {i \in 1 .. Len(f) : f[i].src = s}
    OBVIOUS
<1>7. \A i : i \in P <=> i \in 1 .. Len(q) /\ q[i].cat = c
    BY <1>4, <1>5, <1>6
<1>8. SourceInOrder(q, c, n) /\ (torn = "clear" \/ OffsetKept(q, c, n))
    BY <1>3 DEF ViewInv
<1>9. /\ \A i, j \in P : i < j => f[i].nr < f[j].nr
      /\ \A i \in P : f[i].nr <= n
      /\ torn = "clear" \/ n = 0 \/ \E i \in P : f[i].nr = n
    <2>1. \A i \in P : f[i].nr = q[i].nr
        BY <1>4, <1>7
    <2> QED BY <1>7, <1>8, <2>1 DEF SourceInOrder, OffsetKept
<1>10. Proj!Abstract!Places(s) = P
    BY <1>1, <1>3, <1>6 DEF Proj!Abstract!Places, FoldedOf
<1>11. [d \in Entities |-> FoldedOf(view[d], d)][s[2]] = f
    BY <1>1, <1>3
<1>12. [x \in Proj!ViewSources |-> offset[x[1]][x[2]]][s] = n
    BY <1>1, <1>3
<1>13. Proj!Abstract!InOrder(s)
    BY <1>9, <1>10, <1>11, <1>12 DEF Proj!Abstract!InOrder, FoldedOf
<1>14. torn = "clear" \/ Proj!Abstract!Kept(s)
    BY <1>9, <1>10, <1>11, <1>12 DEF Proj!Abstract!Kept, FoldedOf
<1> QED BY <1>13, <1>14

Documents == [e \in Entities |-> FoldedOf(view[e], e)]
Offsets == [s \in Proj!ViewSources |-> offset[s[1]][s[2]]]

\* What is folded stays in place under a fold.
LEMMA FoldedExtends ==
    ASSUME NEW q \in Seq(AnyRow), NEW r \in AnyRow, NEW e
    PROVE  /\ Proj!Abstract!Extends(FoldedOf(q, e), FoldedOf(q, e))
           /\ Proj!Abstract!Extends(FoldedOf(Append(q, r), e), FoldedOf(q, e))
<1>1. PICK f, g : f = FoldedOf(q, e) /\ g = FoldedOf(Append(q, r), e)
    OBVIOUS
<1>2. Append(q, r) \in Seq(AnyRow) /\ Len(Append(q, r)) = Len(q) + 1 /\ \A i \in 1 .. Len(q) : Append(q, r)[i] = q[i]
    OBVIOUS
<1>3. Len(f) = Len(q) /\ Len(q) \in Nat /\ Len(g) = Len(q) + 1
    BY <1>1, <1>2, FoldedViews
<1>4. \A i \in 1 .. Len(q) : f[i] = [src |-> <<q[i].cat, e>>, nr |-> q[i].nr]
    BY <1>1 DEF FoldedOf
<1>5. \A i \in 1 .. Len(q) : g[i] = [src |-> <<q[i].cat, e>>, nr |-> q[i].nr]
    BY <1>1, <1>2 DEF FoldedOf
<1>6. f = [i \in 1 .. Len(q) |-> f[i]]
    BY <1>1 DEF FoldedOf
<1>7. SubSeq(f, 1, Len(f)) = f
    <2>1. SubSeq(f, 1, Len(f)) = [i \in 1 .. Len(q) |-> f[i]]
        BY <1>3, <1>6, SMT
    <2> QED BY <1>6, <2>1
<1>8. SubSeq(g, 1, Len(f)) = f
    <2>1. SubSeq(g, 1, Len(f)) = [i \in 1 .. Len(q) |-> g[i]]
        BY <1>3
    <2>2. [i \in 1 .. Len(q) |-> g[i]] = [i \in 1 .. Len(q) |-> f[i]]
        BY <1>4, <1>5
    <2> QED BY <1>6, <2>1, <2>2
<1> QED BY <1>1, <1>3, <1>7, <1>8 DEF Proj!Abstract!Extends

LEMMA ViewStep ==
    ViewInv /\ ViewInv' /\ [Proj!Next]_<<tailState, projectionState>> =>
        [Proj!Abstract!FoldMore \/ Proj!Abstract!Rebuild]_<<Documents, Offsets, torn = "clear", era>>
<1>1. ViewInv' => Proj!Abstract!Legit'
    BY ViewsAreLegit, PTL
<1> SUFFICES ASSUME ViewInv, ViewInv', [Proj!Next]_<<tailState, projectionState>>
             PROVE  [Proj!Abstract!FoldMore \/ Proj!Abstract!Rebuild]_<<Documents, Offsets, torn = "clear", era>>
    OBVIOUS
<1>2. Proj!Abstract!Legit'
    BY <1>1
<1>3. view \in [Entities -> Seq(AnyRow)]
    BY DEF ViewInv, FollowInv, ProjectionShape
<1>4. CASE Folds
    <2>1. PICK r \in AnyRow : view' = [view EXCEPT ![r.ent] = Append(@, r)]
        BY <1>4 DEF Folds
    <2>2. ASSUME NEW e \in Entities PROVE Proj!Abstract!Extends(FoldedOf(view'[e], e), FoldedOf(view[e], e))
        <3>1. view'[e] = view[e] \/ view'[e] = Append(view[e], r)
            BY <1>3, <2>1
        <3>2. PICK q \in Seq(AnyRow) : q = view[e]
            BY <1>3
        <3> QED BY <3>1, <3>2, FoldedExtends
    <2>3. \A e \in Entities : Documents'[e] = FoldedOf(view'[e], e) /\ Documents[e] = FoldedOf(view[e], e)
        BY DEF Documents
    <2>4. \A e \in Entities : Proj!Abstract!Extends(Documents'[e], Documents[e])
        BY <2>2, <2>3
    <2>5. (torn' = "clear") = (torn = "clear") /\ era' = era
        BY <1>4 DEF Folds
    <2> QED BY <1>2, <2>4, <2>5 DEF Proj!Abstract!FoldMore, Documents, FoldedOf
<1>5. CASE Empties
    <2>1. Documents' = [e \in Entities |-> << >>]
        <3>1. \A e \in Entities : FoldedOf(view'[e], e) = << >>
            BY <1>5 DEF Empties, FoldedOf
        <3> QED BY <3>1 DEF Documents
    <2> QED BY <1>2, <1>5, <2>1 DEF Proj!Abstract!Rebuild, Empties, Documents, FoldedOf
<1>6. CASE Leaves
    <2>1. Documents' = Documents /\ Offsets' = Offsets
        BY <1>6 DEF Leaves, Documents, Offsets, Proj!ViewSources
    <2> QED BY <1>6, <2>1 DEF Leaves
<1> QED BY <1>4, <1>5, <1>6, StepOnViews

LEMMA InitViews == Init => ViewInv /\ Proj!Abstract!Empty
<1> SUFFICES ASSUME Init PROVE ViewInv /\ Proj!Abstract!Empty
    OBVIOUS
<1>1. /\ FollowInv /\ pass.of = "none" /\ torn = "no" /\ era = 0
      /\ view = [e \in Entities |-> << >>] /\ offset = [c \in Categories |-> [e \in Entities |-> 0]]
    BY InitFollows DEF Init, Proj!Init, Proj!EmptyStore, Proj!NoPass
<1>2. \A c \in Categories, e \in Entities : SourceInOrder(view[e], c, offset[c][e]) /\ OffsetKept(view[e], c, offset[c][e])
    BY <1>1 DEF SourceInOrder, OffsetKept
<1>3. ViewInv
    BY <1>1, <1>2 DEF ViewInv
<1>4. Documents = [e \in Entities |-> << >>]
    <2>1. \A e \in Entities : FoldedOf(view[e], e) = << >>
        BY <1>1 DEF FoldedOf
    <2> QED BY <2>1 DEF Documents
<1>5. Offsets = [s \in Proj!ViewSources |-> 0]
    BY <1>1 DEF Offsets, Proj!ViewSources
<1>6. Proj!Abstract!Empty
    BY <1>1, <1>4, <1>5 DEF Proj!Abstract!Empty, Documents, Offsets, FoldedOf
<1> QED BY <1>3, <1>6

\* The projection implements ViewSpec: whatever runs it, with rebuilds, crashes and runners
\* racing each other, a view is its sources' events in the order of their numbers, none twice,
\* and the offset kept for a source is the number of an event in the view.
THEOREM ViewsAreImplemented == Spec => ImplementsViewSpec
<1> DEFINE Inv == deployed = "projection" => ViewInv
<1>1. Init => Inv /\ Proj!Abstract!Empty
    BY InitViews
<1>2. Inv /\ [Next]_vars => Inv'
    BY ProjectionSteps, ViewsKept
<1>3. Inv /\ Inv' /\ [Next]_vars =>
        [Proj!Abstract!FoldMore \/ Proj!Abstract!Rebuild]_<<Documents, Offsets, torn = "clear", era>>
    <2> SUFFICES ASSUME Inv, Inv', [Next]_vars
                 PROVE  [Proj!Abstract!FoldMore \/ Proj!Abstract!Rebuild]_<<Documents, Offsets, torn = "clear", era>>
        OBVIOUS
    <2>1. CASE deployed = "projection"
        BY <2>1, ProjectionSteps, ViewStep
    <2>2. CASE deployed # "projection"
        <3>1. UNCHANGED <<view, offset, torn, era>>
            BY <2>2 DEF Next, vars, projectionState, ProjectionRuns, SagaRuns, ClientRuns, CommandsRun, FeedsRun, BridgeRuns, HaRuns, WindowsRun
        <3> QED BY <3>1 DEF Documents, Offsets, Proj!ViewSources
    <2> QED BY <2>1, <2>2
<1>4. Spec => Proj!Abstract!Empty /\ [][Proj!Abstract!FoldMore \/ Proj!Abstract!Rebuild]_<<Documents, Offsets, torn = "clear", era>>
    BY <1>1, <1>2, <1>3, PTL DEF Spec
<1> QED BY <1>4, PTL DEF ImplementsViewSpec, Proj!ImplementsViewSpec, Proj!Abstract!Spec, Documents, Offsets, FoldedOf

-----------------------------------------------------------------------------
(* Sagas: no event is passed over, no step runs out of turn.                *)

\* Saga and Projection take the tail from the same module.
LEMMA SameTail ==
    /\ \A c, e, tag : Sagas!Write(c, e, tag) => Proj!Write(c, e, tag)
    /\ \A c : /\ Sagas!Subscribe(c) => Proj!Subscribe(c)
              /\ Sagas!FetchPage(c) => Proj!FetchPage(c)
              /\ Sagas!DeleteBefore(c) => Proj!DeleteBefore(c)
              /\ \A r : Sagas!Yields(c, r) => Proj!Yields(c, r)
    /\ Sagas!TailsDie => Proj!TailsDie
    /\ Sagas!TailInit => Proj!TailInit
<1>1. \A S : Sagas!Cardinality(S) = Proj!Cardinality(S) /\ Sagas!Max(S) = Proj!Max(S)
    BY DEF Sagas!Cardinality, Proj!Cardinality, Sagas!Max, Proj!Max
<1>2. Sagas!NextRow = Proj!NextRow /\ Sagas!Writes = Proj!Writes /\ Sagas!Off = Proj!Off
    BY <1>1 DEF Sagas!NextRow, Proj!NextRow, Sagas!Writes, Proj!Writes, Sagas!Off, Proj!Off
<1>3. \A c, e, tag : Sagas!Write(c, e, tag) => Proj!Write(c, e, tag)
    BY <1>2 DEF Sagas!Write, Proj!Write, Sagas!Row, Proj!Row
<1>4. \A c : Sagas!CategoryRows(c) = Proj!CategoryRows(c)
    BY DEF Sagas!CategoryRows, Proj!CategoryRows
<1>5. \A c : Sagas!Subscribe(c) => Proj!Subscribe(c)
    BY <1>2, <1>4 DEF Sagas!Subscribe, Proj!Subscribe, Sagas!OpenTail, Proj!OpenTail
<1>6. \A c : Sagas!PageAfter(c) = Proj!PageAfter(c)
    BY <1>1, <1>4 DEF Sagas!PageAfter, Proj!PageAfter
<1>7. \A c : Sagas!FetchPage(c) => Proj!FetchPage(c)
    BY <1>6 DEF Sagas!FetchPage, Proj!FetchPage
<1>8. \A c : Sagas!DeleteBefore(c) => Proj!DeleteBefore(c)
    BY <1>1, <1>2, <1>4 DEF Sagas!DeleteBefore, Proj!DeleteBefore
<1>9. Sagas!EntityOrder = Proj!EntityOrder
    BY <1>1 DEF Sagas!EntityOrder, Proj!EntityOrder
<1>10. \A r, S : Sagas!IsFirst(r, S) <=> Proj!IsFirst(r, S)
    BY <1>9 DEF Sagas!IsFirst, Proj!IsFirst, Sagas!Precedes, Proj!Precedes
<1>11. \A c, r : Sagas!NextOnPage(c, r) <=> Proj!NextOnPage(c, r)
    BY <1>10 DEF Sagas!NextOnPage, Proj!NextOnPage
<1>12. \A c, i : Sagas!NextInQueue(c, i) <=> Proj!NextInQueue(c, i)
    BY DEF Sagas!NextInQueue, Proj!NextInQueue, Sagas!Covered, Proj!Covered
<1>13. \A c, r : Sagas!Yields(c, r) => Proj!Yields(c, r)
    <2> SUFFICES ASSUME NEW c, NEW r, Sagas!Yields(c, r) PROVE Proj!Yields(c, r)
        OBVIOUS
    <2>1. PICK page : page = [tail EXCEPT ![c].page = @ \ {r},
                                          ![c].cursor = IF backend = "sqlite" THEN r.row ELSE @,
                                          ![c].emitted[r.ent] = IF backend = "inmem" THEN Proj!Higher(@, r.nr) ELSE @]
        OBVIOUS
    <2>2. page = [tail EXCEPT ![c].page = @ \ {r},
                              ![c].cursor = IF backend = "sqlite" THEN r.row ELSE @,
                              ![c].emitted[r.ent] = IF backend = "inmem" THEN Sagas!Higher(@, r.nr) ELSE @]
        BY <2>1 DEF Sagas!Higher, Proj!Higher
    <2>5. tail[c].on /\ UNCHANGED <<backend, log, written, reused, top, crashes>>
        BY DEF Sagas!Yields
    <2>3. CASE Sagas!NextOnPage(c, r) /\ tail' = page
        <3>1. Proj!NextOnPage(c, r)
            BY <1>11, <2>3, SMTT(40)
        <3> QED BY <2>1, <2>3, <2>5, <3>1 DEF Proj!Yields
    <2>4. CASE /\ tail[c].page = {}
               /\ \E i \in 1 .. Len(tail[c].queue) :
                     /\ Sagas!NextInQueue(c, i) /\ r = tail[c].queue[i]
                     /\ tail' = [tail EXCEPT ![c].queue = SubSeq(@, i + 1, Len(@)), ![c].emitted[r.ent] = r.nr]
        <3>1. \E i \in 1 .. Len(tail[c].queue) :
                     /\ Proj!NextInQueue(c, i) /\ r = tail[c].queue[i]
                     /\ tail' = [tail EXCEPT ![c].queue = SubSeq(@, i + 1, Len(@)), ![c].emitted[r.ent] = r.nr]
            BY <1>12, <2>4
        <3> QED BY <2>4, <2>5, <3>1 DEF Proj!Yields
    <2> QED BY <2>2, <2>3, <2>4, Zenon DEF Sagas!Yields
<1>14. (Sagas!TailsDie => Proj!TailsDie) /\ (Sagas!TailInit => Proj!TailInit)
    BY <1>2 DEF Sagas!TailsDie, Proj!TailsDie, Sagas!TailInit, Proj!TailInit
<1> QED BY <1>3, <1>5, <1>7, <1>8, <1>13, <1>14

\* Event r was answered, or needs no answer, or is excused.
Tried(r) == r.tag # "on" \/ <<r.cat, r>> \in answered \/ r \in reused

\* Its loop is at work on it.
InHand(r) == held[r.cat] = r /\ at[r.cat] # "pull"

SagaShape ==
    /\ offs \in [Categories -> [Entities -> Nat]]
    /\ at = [c \in Categories |-> at[c]] /\ held = [c \in Categories |-> held[c]] /\ step = [e \in Entities |-> step[e]]
    /\ batch = [cat |-> batch.cat, rows |-> batch.rows]
    /\ \A c \in Categories, e \in Entities : offs[c][e] <= written[c][e]

\* What a tail is past was tried, or is in hand.
PassedTried == \A q \in log : Passed(q.cat, q) => Tried(q) \/ InHand(q)

\* What a loop has in hand was stored, and whatever precedes it was tried.
HandInOrder ==
    \A c \in Categories : at[c] # "pull" =>
        /\ Genuine(held[c]) /\ held[c].cat = c
        /\ \A q \in log : SameSource(q, held[c]) /\ q.nr < held[c].nr => Tried(q)
        /\ at[c] \in {"settle", "compensate", "advance"} => <<c, held[c]>> \in answered

\* What precedes a row a batch run has left is left too, was tried or is in hand.
BatchInOrder ==
    \A p \in batch.rows :
        /\ Genuine(p) /\ p.cat = batch.cat
        /\ \A q \in log : SameSource(q, p) /\ q.nr < p.nr => q \in batch.rows \/ Tried(q) \/ InHand(q)

SagaInv == TailInv /\ SagaShape /\ Sagas!NoUntriedEvent /\ PassedTried /\ HandInOrder /\ BatchInOrder

LEMMA GapIsTried == Sagas!NoUntriedEvent <=> \A q \in log : q.nr <= offs[q.cat][q.ent] => Tried(q)
BY DEF Sagas!NoUntriedEvent, Tried

\* A step of the loop of c that leaves record h in its hands, or done with.
LoopMoves(c, h) ==
    /\ Genuine(h) /\ h.cat = c /\ \A q \in log : SameSource(q, h) /\ q.nr < h.nr => Tried(q)
    /\ at[c] = "pull" \/ held[c] = h
    /\ held' = [held EXCEPT ![c] = h] /\ at' = [at EXCEPT ![c] = at'[c]]
    /\ UNCHANGED <<backend, log, written, reused, top>> /\ answered \subseteq answered'
    /\ at'[c] = "pull" => Tried(h)' \/ h \notin log
    /\ at'[c] \in {"settle", "compensate", "advance"} => <<c, h>> \in answered'
    /\ offs' = offs \/ (offs' = [offs EXCEPT ![c][h.ent] = h.nr] /\ Tried(h)')
    /\ \A q \in log : Passed(q.cat, q)' => Passed(q.cat, q) \/ q = h \/ q \in reused
    /\ batch' = [cat |-> batch'.cat, rows |-> batch'.rows] /\ batch'.rows \subseteq batch.rows
    /\ batch'.rows # {} => batch'.cat = batch.cat /\ \A p \in batch.rows : p \in batch'.rows \/ p = h
    /\ step' = [e \in Entities |-> step'[e]]

LEMMA LoopKeepsSaga ==
    ASSUME SagaInv, TailInv', NEW c \in Categories, NEW h, LoopMoves(c, h)
    PROVE  SagaInv'
<1>1. /\ UNCHANGED <<backend, log, written, reused, top>> /\ answered \subseteq answered'
      /\ Genuine(h) /\ h.cat = c /\ h.ent \in Entities /\ h.nr \in Nat /\ h.nr <= written[c][h.ent]
    BY DEF LoopMoves, Genuine, AnyRow
<1>2. \A q \in log : Genuine(q) /\ q.cat \in Categories /\ q.ent \in Entities /\ q.nr \in Nat
    BY DEF SagaInv, TailInv, Genuine, AnyRow
<1>3. \A q : Tried(q) => Tried(q)'
    BY <1>1 DEF Tried
<1>4. \A q : Genuine(q) => Genuine(q)'
    BY <1>1 DEF Genuine
<1>5. /\ \A d \in Categories : d # c => at'[d] = at[d] /\ held'[d] = held[d]
      /\ held'[c] = h
      /\ at' = [d \in Categories |-> at'[d]] /\ held' = [d \in Categories |-> held'[d]]
    BY DEF LoopMoves, SagaInv, SagaShape
<1>6. ASSUME NEW q \in log, InHand(q) PROVE Tried(q)' \/ InHand(q)'
    <2>1. CASE q.cat # c
        BY <1>2, <1>5, <1>6, <2>1 DEF InHand
    <2>2. CASE q.cat = c
        <3>1. q = h
            BY <1>6, <2>2 DEF InHand, LoopMoves
        <3> QED BY <1>5, <1>6, <2>2, <3>1 DEF InHand, LoopMoves
    <2> QED BY <2>1, <2>2
<1>7. h \in log => Tried(h)' \/ InHand(h)'
    BY <1>1, <1>5 DEF InHand, LoopMoves
<1>8. /\ offs \in [Categories -> [Entities -> Nat]] /\ offs' \in [Categories -> [Entities -> Nat]]
      /\ \A d \in Categories, e \in Entities : offs'[d][e] <= written[d][e]
    <2>1. offs \in [Categories -> [Entities -> Nat]] /\ \A d \in Categories, e \in Entities : offs[d][e] <= written[d][e]
        BY DEF SagaInv, SagaShape
    <2>2. CASE offs' = offs
        BY <2>1, <2>2
    <2>3. CASE offs' = [offs EXCEPT ![c][h.ent] = h.nr]
        BY <1>1, <2>1, <2>3
    <2> QED BY <2>1, <2>2, <2>3 DEF LoopMoves
<1>9. SagaShape'
    BY <1>1, <1>5, <1>8 DEF SagaShape, LoopMoves
<1>10. Sagas!NoUntriedEvent'
    <2>1. ASSUME NEW q \in log, q.nr <= offs'[q.cat][q.ent] PROVE Tried(q)'
        <3>1. CASE q.nr <= offs[q.cat][q.ent]
            BY <1>3, <3>1, GapIsTried DEF SagaInv
        <3>2. CASE ~(q.nr <= offs[q.cat][q.ent])
            <4>1. offs' = [offs EXCEPT ![c][h.ent] = h.nr] /\ Tried(h)'
                BY <2>1, <3>2 DEF LoopMoves
            <4>2. q.cat = c /\ q.ent = h.ent /\ q.nr <= h.nr
                BY <1>1, <1>2, <1>8, <2>1, <3>2, <4>1
            <4>3. CASE q.nr < h.nr
                BY <1>1, <1>3, <4>2, <4>3 DEF LoopMoves, SameSource
            <4>4. CASE q.nr = h.nr
                BY <1>1, <4>1, <4>2, <4>4 DEF Genuine, SameSource
            <4> QED BY <1>1, <1>2, <4>2, <4>3, <4>4
        <3> QED BY <3>1, <3>2
    <2> QED BY <1>1, <2>1 DEF Sagas!NoUntriedEvent, Tried
<1>11. PassedTried'
    <2> SUFFICES ASSUME NEW q \in log, Passed(q.cat, q)' PROVE Tried(q)' \/ InHand(q)'
        BY <1>1 DEF PassedTried
    <2>1. Passed(q.cat, q) \/ q = h \/ q \in reused
        BY DEF LoopMoves
    <2>2. CASE Passed(q.cat, q)
        BY <1>3, <1>6, <2>2 DEF SagaInv, PassedTried
    <2>3. CASE q \in reused
        BY <1>1, <2>3 DEF Tried
    <2> QED BY <1>7, <2>1, <2>2, <2>3
<1>12. HandInOrder'
    <2> SUFFICES ASSUME NEW d \in Categories, NEW k, k = held'[d], at'[d] # "pull"
                 PROVE  /\ Genuine(k)' /\ k.cat = d
                        /\ \A q \in log : SameSource(q, k) /\ q.nr < k.nr => Tried(q)'
                        /\ at'[d] \in {"settle", "compensate", "advance"} => <<d, k>> \in answered'
        BY <1>1 DEF HandInOrder, SameSource
    <2>1. CASE d = c
        <3>1. k = h
            BY <1>5, <2>1
        <3> QED BY <1>1, <1>3, <1>4, <2>1, <3>1 DEF LoopMoves
    <2>2. CASE d # c
        <3>1. k = held[d] /\ at'[d] = at[d]
            BY <1>5, <2>2
        <3> QED BY <1>1, <1>3, <1>4, <3>1 DEF SagaInv, HandInOrder
    <2> QED BY <2>1, <2>2
<1>13. BatchInOrder'
    <2> SUFFICES ASSUME NEW p \in batch'.rows
                 PROVE  /\ Genuine(p)' /\ p.cat = batch'.cat
                        /\ \A q \in log : SameSource(q, p) /\ q.nr < p.nr => q \in batch'.rows \/ Tried(q)' \/ InHand(q)'
        BY <1>1 DEF BatchInOrder
    <2>1. p \in batch.rows /\ batch'.cat = batch.cat /\ \A x \in batch.rows : x \in batch'.rows \/ x = h
        BY DEF LoopMoves
    <2>2. Genuine(p) /\ p.cat = batch.cat
          /\ \A q \in log : SameSource(q, p) /\ q.nr < p.nr => q \in batch.rows \/ Tried(q) \/ InHand(q)
        BY <2>1 DEF SagaInv, BatchInOrder
    <2>3. ASSUME NEW q \in log, SameSource(q, p) /\ q.nr < p.nr PROVE q \in batch'.rows \/ Tried(q)' \/ InHand(q)'
        <3>1. q \in batch'.rows \/ q = h \/ Tried(q) \/ InHand(q)
            BY <2>1, <2>2, <2>3
        <3> QED BY <1>3, <1>6, <1>7, <3>1
    <2> QED BY <1>4, <2>1, <2>2, <2>3
<1> QED BY <1>9, <1>10, <1>11, <1>12, <1>13 DEF SagaInv

\* The loop of c takes record r.
LEMMA ReceiveMoves ==
    ASSUME SagaInv, NEW c \in Categories, NEW r, Sagas!Receive(c, r), at[c] = "pull",
           UNCHANGED <<backend, log, written, reused, top>>,
           Genuine(r), r.cat = c, \A q \in log : SameSource(q, r) /\ q.nr < r.nr => Tried(q),
           \A q \in log : Passed(q.cat, q)' => Passed(q.cat, q) \/ q = r \/ q \in reused,
           batch' = [cat |-> batch'.cat, rows |-> batch'.rows], batch'.cat = batch.cat, batch'.rows \subseteq batch.rows,
           \A p \in batch.rows : p \in batch'.rows \/ p = r
    PROVE  LoopMoves(c, r)
<1>1. held' = [held EXCEPT ![c] = r] /\ UNCHANGED step
    BY DEF Sagas!Receive
<1>2. at = [d \in Categories |-> at[d]] /\ step' = [e \in Entities |-> step'[e]]
    BY <1>1 DEF SagaInv, SagaShape
<1>3. \A q \in log : q.nr <= offs[q.cat][q.ent] => Tried(q)
    BY GapIsTried DEF SagaInv
<1>4. /\ at' = [at EXCEPT ![c] = at'[c]] /\ at'[c] \in {"pull", "turn", "exec"} /\ answered \subseteq answered'
      /\ offs' = offs \/ (offs' = [offs EXCEPT ![c][r.ent] = r.nr] /\ (r.tag # "on" \/ <<c, r>> \in answered'))
      /\ at'[c] = "pull" => r.nr <= offs[c][r.ent] \/ r.tag # "on" \/ <<c, r>> \in answered'
    BY <1>2 DEF Sagas!Receive, Sagas!Goto, Sagas!SetOffset
<1>5. at'[c] = "pull" => Tried(r)' \/ r \notin log
    BY <1>3, <1>4 DEF Tried
<1>6. offs' = offs \/ (offs' = [offs EXCEPT ![c][r.ent] = r.nr] /\ Tried(r)')
    BY <1>4 DEF Tried
<1> QED BY <1>1, <1>2, <1>4, <1>5, <1>6 DEF LoopMoves

LEMMA SagaPullKeeps ==
    ASSUME SagaInv, NEW c \in Categories, Sagas!TailPull(c)
    PROVE  SagaInv'
<1>1. PICK r : Proj!Yields(c, r) /\ Sagas!Receive(c, r)
    BY SameTail DEF Sagas!TailPull
<1>2. at[c] = "pull" /\ UNCHANGED batch
    BY DEF Sagas!TailPull
<1>3. TailInv /\ TailInv'
    <2>1. TailStep /\ TailInv
        BY <1>1 DEF TailStep, SagaInv
    <2> QED BY <2>1, TailsKept
<1>4. Genuine(r) /\ r.cat = c /\ tail' = [tail EXCEPT ![c] = tail'[c]] /\ UNCHANGED <<backend, log, written, reused, top>>
    BY <1>1, <1>3, PullIsEither
<1>5. /\ \A q \in log : SameSource(q, r) /\ q.nr < r.nr => Passed(c, q) \/ q \in reused
      /\ \A q \in log : q.cat = c /\ Passed(c, q)' => Passed(c, q) \/ q = r \/ q \in reused
    BY <1>1, <1>3, PullIsInOrder
<1>6. \A d \in Categories : d # c => tail'[d] = tail[d]
    BY <1>4 DEF SagaInv, TailInv, TailShape
<1>7. \A q \in log : q.cat \in Categories
    BY DEF SagaInv, TailInv, Genuine, AnyRow
<1>8. \A q \in log : SameSource(q, r) /\ q.nr < r.nr => Tried(q)
    <2> SUFFICES ASSUME NEW q \in log, SameSource(q, r), q.nr < r.nr PROVE Tried(q)
        OBVIOUS
    <2>1. q.cat = c
        BY <1>4 DEF SameSource
    <2>2. Passed(q.cat, q) \/ q \in reused
        BY <1>5, <2>1
    <2>3. ~InHand(q)
        BY <1>2, <2>1 DEF InHand
    <2> QED BY <2>2, <2>3 DEF SagaInv, PassedTried, Tried
<1>9. ASSUME NEW q \in log, Passed(q.cat, q)' PROVE Passed(q.cat, q) \/ q = r \/ q \in reused
    <2>1. CASE q.cat = c
        BY <1>5, <1>9, <2>1
    <2>2. CASE q.cat # c
        BY <1>4, <1>6, <1>7, <1>9, <2>2 DEF Passed
    <2> QED BY <2>1, <2>2
<1>10. batch' = [cat |-> batch'.cat, rows |-> batch'.rows] /\ batch'.cat = batch.cat /\ batch'.rows = batch.rows
    BY <1>2 DEF SagaInv, SagaShape
<1>11. LoopMoves(c, r)
    BY <1>1, <1>2, <1>4, <1>8, <1>9, <1>10, ReceiveMoves
<1> QED BY <1>3, <1>11, LoopKeepsSaga

LEMMA BatchPullKeeps ==
    ASSUME SagaInv, NEW c \in Categories, Sagas!BatchPull(c)
    PROVE  SagaInv'
<1>1. PICK r \in batch.rows : Sagas!IsFirst(r, batch.rows) /\ batch' = [batch EXCEPT !.rows = @ \ {r}] /\ Sagas!Receive(c, r)
    BY DEF Sagas!BatchPull
<1>2. batch.cat = c /\ at[c] = "pull" /\ UNCHANGED tailState /\ UNCHANGED <<backend, log, written, reused, top, tail>>
    BY DEF Sagas!BatchPull, Sagas!tailVars, tailState
<1>3. TailInv /\ TailInv'
    BY <1>2, TailsKept DEF SagaInv, TailStep
<1>4. Genuine(r) /\ r.cat = c
    BY <1>1, <1>2 DEF SagaInv, BatchInOrder
<1>5. batch = [cat |-> batch.cat, rows |-> batch.rows]
    BY DEF SagaInv, SagaShape
<1>6. batch' = [cat |-> batch'.cat, rows |-> batch'.rows] /\ batch'.cat = batch.cat /\ batch'.rows = batch.rows \ {r}
    BY <1>1, <1>5
<1>7. \A q \in log : SameSource(q, r) /\ q.nr < r.nr => Tried(q)
    <2> SUFFICES ASSUME NEW q \in log, SameSource(q, r), q.nr < r.nr PROVE Tried(q)
        OBVIOUS
    <2>1. q.nr \in Nat /\ r.nr \in Nat /\ q.cat = c
        BY <1>3, <1>4 DEF TailInv, Genuine, AnyRow, SameSource
    <2>2. q \notin batch.rows
        <3> SUFFICES ASSUME q \in batch.rows PROVE FALSE
            OBVIOUS
        <3>1. q # r
            BY <2>1
        <3>2. Sagas!Precedes(r, q)
            BY <1>1, <3>1 DEF Sagas!IsFirst
        <3> QED BY <2>1, <3>2 DEF Sagas!Precedes, SameSource
    <2>3. ~InHand(q)
        BY <1>2, <2>1 DEF InHand
    <2> QED BY <1>1, <2>2, <2>3 DEF SagaInv, BatchInOrder
<1>8. \A q \in log : Passed(q.cat, q)' => Passed(q.cat, q)
    BY <1>2 DEF Passed
<1>9. LoopMoves(c, r)
    BY <1>1, <1>2, <1>4, <1>6, <1>7, <1>8, ReceiveMoves
<1> QED BY <1>3, <1>9, LoopKeepsSaga

\* The rest of the loop, until it is done with its record.
LEMMA HandKeeps ==
    ASSUME SagaInv, NEW c \in Categories,
           Sagas!TakeTurn(c) \/ Sagas!Execute(c) \/ Sagas!Succeed(c) \/ Sagas!Fail(c) \/ Sagas!Compensated(c) \/ Sagas!Advance(c)
    PROVE  SagaInv'
<1>1. PICK h : h = held[c]
    OBVIOUS
<1>2. /\ at = [d \in Categories |-> at[d]] /\ held = [d \in Categories |-> held[d]]
      /\ step = [e \in Entities |-> step[e]] /\ batch = [cat |-> batch.cat, rows |-> batch.rows]
    BY DEF SagaInv, SagaShape
<1>3. UNCHANGED tailState /\ UNCHANGED <<backend, log, written, reused, top, tail, held>> /\ at[c] # "pull"
    BY DEF Sagas!TakeTurn, Sagas!Execute, Sagas!Succeed, Sagas!Fail, Sagas!Compensated, Sagas!Advance, Sagas!tailVars, tailState
<1>4. TailInv'
    BY <1>3, TailsKept DEF SagaInv, TailStep
<1>5. /\ Genuine(h) /\ h.cat = c /\ \A q \in log : SameSource(q, h) /\ q.nr < h.nr => Tried(q)
      /\ at[c] \in {"settle", "compensate", "advance"} => <<c, h>> \in answered
    BY <1>1, <1>3 DEF SagaInv, HandInOrder
<1>6. held' = [held EXCEPT ![c] = h]
    BY <1>1, <1>2, <1>3
<1>7. /\ at' = [at EXCEPT ![c] = at'[c]] /\ answered \subseteq answered'
      /\ at'[c] \in {"pull", "settle", "compensate", "advance"} => <<c, h>> \in answered'
      /\ offs' = offs \/ (offs' = [offs EXCEPT ![c][h.ent] = h.nr] /\ <<c, h>> \in answered')
    <2>1. CASE Sagas!TakeTurn(c)
        BY <1>1, <1>2, <2>1 DEF Sagas!TakeTurn, Sagas!Goto, Sagas!SetOffset
    <2>2. CASE Sagas!Execute(c) \/ Sagas!Fail(c)
        BY <1>1, <1>2, <2>2 DEF Sagas!Execute, Sagas!Fail, Sagas!Goto
    <2>3. CASE Sagas!Succeed(c) \/ Sagas!Compensated(c) \/ Sagas!Advance(c)
        BY <1>1, <1>2, <1>5, <2>3 DEF Sagas!Succeed, Sagas!Compensated, Sagas!Advance, Sagas!Goto, Sagas!SetOffset
    <2> QED BY <2>1, <2>2, <2>3
<1>8. <<c, h>> \in answered' => Tried(h)'
    BY <1>5 DEF Tried
<1>9. \A q \in log : Passed(q.cat, q)' => Passed(q.cat, q)
    BY <1>3 DEF Passed
<1>10. batch' = batch \/ batch' = Sagas!NoBatch
    BY DEF Sagas!TakeTurn, Sagas!Execute, Sagas!Succeed, Sagas!Fail, Sagas!Compensated, Sagas!Advance
<1>11. /\ batch' = [cat |-> batch'.cat, rows |-> batch'.rows] /\ batch'.rows \subseteq batch.rows
       /\ batch'.rows # {} => batch'.cat = batch.cat /\ batch'.rows = batch.rows
    BY <1>2, <1>10 DEF Sagas!NoBatch
<1>12. step' = [e \in Entities |-> step'[e]]
    BY <1>2 DEF Sagas!TakeTurn, Sagas!Execute, Sagas!Succeed, Sagas!Fail, Sagas!Compensated, Sagas!Advance
<1>13. LoopMoves(c, h)
    BY <1>1, <1>3, <1>5, <1>6, <1>7, <1>8, <1>9, <1>11, <1>12 DEF LoopMoves
<1> QED BY <1>4, <1>13, LoopKeepsSaga

\* A step of the tails that writes nothing and is past no other row.
LEMMA QuietTailKeepsSaga ==
    ASSUME SagaInv, TailStep, UNCHANGED <<at, held, offs, step, answered, batch>>,
           log' \subseteq log, UNCHANGED <<written, reused>>, \A q \in log' : Passed(q.cat, q)' => Passed(q.cat, q)
    PROVE  SagaInv'
<1>1. TailInv /\ TailInv'
    BY TailsKept DEF SagaInv
<1>2. \A q : (Tried(q) <=> Tried(q)') /\ (InHand(q) <=> InHand(q)')
    BY DEF Tried, InHand
<1>3. \A q : Genuine(q) => Genuine(q)'
    BY <1>1, GenuineStays
<1>4. SagaShape'
    BY DEF SagaInv, SagaShape
<1>5. Sagas!NoUntriedEvent'
    BY DEF SagaInv, Sagas!NoUntriedEvent
<1>6. PassedTried'
    BY <1>2 DEF SagaInv, PassedTried
<1>7. HandInOrder'
    <2> SUFFICES ASSUME NEW d \in Categories, NEW k, k = held[d], at[d] # "pull"
                 PROVE  /\ Genuine(k)' /\ k.cat = d
                        /\ \A q \in log' : SameSource(q, k) /\ q.nr < k.nr => Tried(q)'
                        /\ at[d] \in {"settle", "compensate", "advance"} => <<d, k>> \in answered
        BY DEF HandInOrder, SameSource
    <2> QED BY <1>2, <1>3 DEF SagaInv, HandInOrder
<1>8. BatchInOrder'
    BY <1>2, <1>3 DEF SagaInv, BatchInOrder, SameSource
<1> QED BY <1>1, <1>4, <1>5, <1>6, <1>7, <1>8 DEF SagaInv

LEMMA WriteKeepsSaga ==
    ASSUME SagaInv, UNCHANGED <<at, held, offs, step, answered, batch>>,
           NEW c \in Categories, NEW e \in Entities, NEW tag \in Proj!Tags, Proj!Write(c, e, tag)
    PROVE  SagaInv'
<1>0. TailStep /\ TailInv
    BY DEF TailStep, SagaInv
<1>1. TailInv'
    BY <1>0, TailsKept
<1>2. PICK f : f = Fresh(c, e, tag)
    OBVIOUS
<1>3. f \in AnyRow /\ f.cat = c /\ f.ent = e /\ f.nr = written[c][e] + 1 /\ f.row \in Nat /\ f.nr \in Nat
    BY <1>0, <1>2, WriteIsFresh DEF Fresh, Proj!Row, AnyRow
<1>4. /\ log' = log \cup {f} /\ UNCHANGED backend /\ written' = [written EXCEPT ![c][e] = @ + 1]
      /\ reused \subseteq reused' /\ (f.row > top \/ f \in reused')
      /\ tail' = IF backend = "inmem" /\ tail[c].on THEN [tail EXCEPT ![c].queue = Append(@, f)] ELSE tail
    BY <1>0, <1>2, WriteIsFresh
<1>5. \A d \in Categories : tail'[d].on = tail[d].on /\ tail'[d].emitted = tail[d].emitted /\ tail'[d].cursor = tail[d].cursor
    BY <1>0, <1>4 DEF TailInv, TailShape, TailRecord
<1>6. \A q : q.cat \in Categories => (Passed(q.cat, q)' <=> Passed(q.cat, q))
    BY <1>4, <1>5 DEF Passed
<1>7. written[c][e] \in Nat /\ top \in Nat /\ tail[c] \in TailRecord
    BY <1>0 DEF TailInv, TailShape
<1>8. Passed(c, f) => f \in reused'
    <2>1. PageInv(tail[c], c) /\ SeamInv(tail[c], c) /\ tail[c].cursor \in Nat /\ tail[c].emitted[e] \in Nat
        BY <1>0, <1>7 DEF TailInv, TailRecord
    <2>2. CASE backend = "inmem"
        BY <1>3, <1>7, <2>1, <2>2 DEF Passed, SeamInv
    <2>3. CASE backend = "sqlite"
        BY <1>3, <1>4, <1>7, <2>1, <2>3 DEF Passed, PageInv
    <2> QED BY <1>0, <2>2, <2>3 DEF TailInv, TailShape
<1>9. /\ \A d \in Categories, k \in Entities : offs[d][k] \in Nat /\ written[d][k] \in Nat
      /\ \A d \in Categories, k \in Entities : offs[d][k] <= written[d][k] /\ offs'[d][k] <= written'[d][k]
    BY <1>0, <1>4 DEF SagaInv, SagaShape, TailInv, TailShape
<1>10. ~(f.nr <= offs[f.cat][f.ent])
    BY <1>3, <1>7, <1>9
<1>11. SagaShape'
    BY <1>9 DEF SagaInv, SagaShape
<1>12. \A q : (Tried(q) => Tried(q)') /\ (InHand(q) <=> InHand(q)')
    BY <1>4 DEF Tried, InHand
<1>13. Sagas!NoUntriedEvent'
    <2> SUFFICES ASSUME NEW q \in log', q.nr <= offs[q.cat][q.ent] PROVE Tried(q)'
        BY DEF Sagas!NoUntriedEvent, Tried
    <2>1. q \in log
        BY <1>4, <1>10
    <2> QED BY <1>12, <2>1, GapIsTried DEF SagaInv
<1>14. PassedTried'
    <2> SUFFICES ASSUME NEW q \in log', Passed(q.cat, q)' PROVE Tried(q)' \/ InHand(q)'
        BY DEF PassedTried
    <2>1. q.cat \in Categories
        BY <1>1 DEF TailInv, Genuine, AnyRow
    <2>2. CASE q \in log
        BY <1>6, <1>12, <2>1, <2>2 DEF SagaInv, PassedTried
    <2>3. CASE q = f
        BY <1>3, <1>6, <1>8, <2>1, <2>3 DEF Tried
    <2> QED BY <1>4, <2>2, <2>3
<1>15. ASSUME NEW r, Genuine(r) PROVE Genuine(r)' /\ ~(SameSource(f, r) /\ f.nr < r.nr)
    <2>1. r.nr \in Nat /\ r.nr <= written[r.cat][r.ent]
        BY <1>15 DEF Genuine, AnyRow
    <2> QED BY <1>0, <1>3, <1>7, <1>15, <2>1, GenuineStays DEF SameSource
<1>16. HandInOrder'
    <2> SUFFICES ASSUME NEW d \in Categories, NEW k, k = held[d], at[d] # "pull"
                 PROVE  /\ Genuine(k)' /\ k.cat = d
                        /\ \A q \in log' : SameSource(q, k) /\ q.nr < k.nr => Tried(q)'
                        /\ at[d] \in {"settle", "compensate", "advance"} => <<d, k>> \in answered
        BY DEF HandInOrder, SameSource
    <2>1. /\ Genuine(k) /\ k.cat = d /\ \A q \in log : SameSource(q, k) /\ q.nr < k.nr => Tried(q)
          /\ at[d] \in {"settle", "compensate", "advance"} => <<d, k>> \in answered
        BY DEF SagaInv, HandInOrder
    <2> QED BY <1>4, <1>12, <1>15, <2>1
<1>17. BatchInOrder'
    <2> SUFFICES ASSUME NEW p \in batch.rows
                 PROVE  /\ Genuine(p)' /\ p.cat = batch.cat
                        /\ \A q \in log' : SameSource(q, p) /\ q.nr < p.nr => q \in batch.rows \/ Tried(q)' \/ InHand(q)'
        BY DEF BatchInOrder
    <2>1. /\ Genuine(p) /\ p.cat = batch.cat
          /\ \A q \in log : SameSource(q, p) /\ q.nr < p.nr => q \in batch.rows \/ Tried(q) \/ InHand(q)
        BY DEF SagaInv, BatchInOrder
    <2> QED BY <1>4, <1>12, <1>15, <2>1
<1> QED BY <1>1, <1>11, <1>13, <1>14, <1>16, <1>17 DEF SagaInv

\* A batch run reads a category, and is over.
LEMMA BatchTurnKeepsSaga ==
    ASSUME SagaInv, UNCHANGED <<tailState, at, held, offs, step, answered>>,
           batch' = Sagas!NoBatch \/ \E c : batch' = [cat |-> c, rows |-> Sagas!CategoryRows(c)]
    PROVE  SagaInv'
<1>1. UNCHANGED <<backend, log, written, reused, top, tail>>
    BY DEF tailState
<1>2. TailInv'
    BY TailsKept DEF SagaInv, TailStep
<1>3. \A q : (Tried(q) <=> Tried(q)') /\ (InHand(q) <=> InHand(q)') /\ (Genuine(q) <=> Genuine(q)')
    BY <1>1 DEF Tried, InHand, Genuine
<1>4. SagaShape'
    BY <1>1 DEF SagaInv, SagaShape, Sagas!NoBatch
<1>5. Sagas!NoUntriedEvent'
    BY <1>1 DEF SagaInv, Sagas!NoUntriedEvent
<1>6. PassedTried'
    BY <1>1, <1>3 DEF SagaInv, PassedTried, Passed
<1>7. HandInOrder'
    <2> SUFFICES ASSUME NEW d \in Categories, NEW k, k = held[d], at[d] # "pull"
                 PROVE  /\ Genuine(k)' /\ k.cat = d
                        /\ \A q \in log : SameSource(q, k) /\ q.nr < k.nr => Tried(q)'
                        /\ at[d] \in {"settle", "compensate", "advance"} => <<d, k>> \in answered
        BY <1>1 DEF HandInOrder, SameSource
    <2> QED BY <1>3 DEF SagaInv, HandInOrder
<1>8. BatchInOrder'
    <2>1. CASE batch' = Sagas!NoBatch
        BY <2>1 DEF BatchInOrder, Sagas!NoBatch
    <2>2. ASSUME NEW c, batch' = [cat |-> c, rows |-> Sagas!CategoryRows(c)] PROVE BatchInOrder'
        <3>1. batch'.cat = c /\ batch'.rows = {q \in log : q.cat = c}
            BY <2>2 DEF Sagas!CategoryRows
        <3> QED BY <1>1, <1>3, <3>1 DEF BatchInOrder, SameSource, SagaInv, TailInv
    <2> QED BY <2>1, <2>2
<1> QED BY <1>2, <1>4, <1>5, <1>6, <1>7, <1>8 DEF SagaInv

LEMMA CrashKeepsSaga ==
    ASSUME SagaInv, Sagas!Crash
    PROVE  SagaInv'
<1>1. Proj!TailsDie /\ TailInv /\ TailStep
    BY SameTail DEF Sagas!Crash, SagaInv, TailStep
<1>2. TailInv' /\ \A c \in Categories, q \in log : ~Passed(c, q)'
    BY <1>1, DeathKeepsTails
<1>3. /\ UNCHANGED <<log, written, reused, offs, step, answered>> /\ at' = [c \in Categories |-> "pull"]
      /\ held' = [c \in Categories |-> Sagas!NoRecord] /\ batch' = Sagas!NoBatch
    BY <1>1 DEF Sagas!Crash, Proj!TailsDie
<1>4. SagaShape'
    BY <1>3 DEF SagaInv, SagaShape, Sagas!NoBatch
<1>5. Sagas!NoUntriedEvent'
    BY <1>3 DEF SagaInv, Sagas!NoUntriedEvent
<1>6. PassedTried'
    <2>1. \A q \in log : q.cat \in Categories
        BY <1>1 DEF TailInv, Genuine, AnyRow
    <2> QED BY <1>2, <1>3, <2>1 DEF PassedTried
<1>7. HandInOrder' /\ BatchInOrder'
    BY <1>3 DEF HandInOrder, BatchInOrder, Sagas!NoBatch
<1> QED BY <1>2, <1>4, <1>5, <1>6, <1>7 DEF SagaInv

LEMMA StepKeepsSaga == SagaInv /\ [Sagas!Next]_<<tailState, sagaState>> => SagaInv'
<1> SUFFICES ASSUME SagaInv, [Sagas!Next]_<<tailState, sagaState>> PROVE SagaInv'
    OBVIOUS
<1>1. TailInv /\ Sagas!Sources \subseteq Categories
    BY SourceAssumption DEF SagaInv, Sagas!Sources
<1>2. \A q \in log : q.cat \in Categories
    BY <1>1 DEF TailInv, Genuine, AnyRow
<1>3. ASSUME UNCHANGED Sagas!sagaVars PROVE UNCHANGED <<at, held, offs, step, answered, batch>>
    BY <1>3 DEF Sagas!sagaVars
<1>4. ASSUME NEW c \in Categories, NEW e \in Entities, NEW tag \in {"on", "other"}, Sagas!Write(c, e, tag), UNCHANGED Sagas!sagaVars
      PROVE  SagaInv'
    <2>1. Proj!Write(c, e, tag) /\ tag \in Proj!Tags
        BY <1>4, SameTail DEF Proj!Tags
    <2> QED BY <1>3, <1>4, <2>1, WriteKeepsSaga
<1>5. ASSUME NEW c \in Categories, Sagas!Subscribe(c), UNCHANGED Sagas!sagaVars PROVE SagaInv'
    <2>1. Proj!Subscribe(c) /\ TailStep
        BY <1>5, SameTail DEF TailStep
    <2>2. UNCHANGED <<backend, log, written, reused>> /\ \A d \in Categories : d # c => tail'[d] = tail[d]
        BY <1>1, <2>1 DEF Proj!Subscribe, Proj!OpenTail, TailInv, TailShape
    <2>3. \A q \in log : ~Passed(c, q)'
        BY <1>1, <2>1, SubscribeKeepsTails
    <2>4. ASSUME NEW q \in log, Passed(q.cat, q)' PROVE Passed(q.cat, q)
        BY <1>2, <2>2, <2>3, <2>4 DEF Passed
    <2> QED BY <1>3, <1>5, <2>1, <2>2, <2>4, QuietTailKeepsSaga
<1>6. ASSUME NEW c \in Categories, Sagas!FetchPage(c), UNCHANGED Sagas!sagaVars PROVE SagaInv'
    <2>1. Proj!FetchPage(c) /\ TailStep
        BY <1>6, SameTail DEF TailStep
    <2>2. UNCHANGED <<backend, log, written, reused>> /\ \A d \in Categories : d # c => tail'[d] = tail[d]
        BY <1>1, <2>1 DEF Proj!FetchPage, TailInv, TailShape
    <2>3. \A q \in log : Passed(c, q)' => Passed(c, q)
        BY <1>1, <2>1, FetchKeepsTails
    <2>4. ASSUME NEW q \in log, Passed(q.cat, q)' PROVE Passed(q.cat, q)
        BY <1>2, <2>2, <2>3, <2>4 DEF Passed
    <2> QED BY <1>3, <1>6, <2>1, <2>2, <2>4, QuietTailKeepsSaga
<1>7. ASSUME NEW c \in Categories, Sagas!DeleteBefore(c), UNCHANGED Sagas!sagaVars PROVE SagaInv'
    <2>1. Proj!DeleteBefore(c) /\ TailStep
        BY <1>7, SameTail DEF TailStep
    <2>2. log' \subseteq log /\ UNCHANGED <<backend, written, reused, tail>>
        BY <2>1 DEF Proj!DeleteBefore
    <2>3. \A q \in log' : Passed(q.cat, q)' => Passed(q.cat, q)
        BY <2>2 DEF Passed
    <2> QED BY <1>3, <1>7, <2>1, <2>2, <2>3, QuietTailKeepsSaga
<1>8. CASE Sagas!StartRun
    <2>1. batch' = [cat |-> 0, rows |-> Sagas!CategoryRows(0)] /\ UNCHANGED <<tailState, at, held, offs, step, answered>>
        BY <1>8 DEF Sagas!StartRun, Sagas!tailVars, tailState
    <2> QED BY <2>1, BatchTurnKeepsSaga
<1>9. ASSUME NEW c \in Categories, Sagas!BatchNext(c) PROVE SagaInv'
    <2>1. /\ batch' = Sagas!NoBatch \/ batch' = [cat |-> c + 1, rows |-> Sagas!CategoryRows(c + 1)]
          /\ UNCHANGED <<tailState, at, held, offs, step, answered>>
        BY <1>9 DEF Sagas!BatchNext, Sagas!tailVars, tailState
    <2> QED BY <2>1, BatchTurnKeepsSaga
<1>10. CASE UNCHANGED <<tailState, sagaState>>
    <2>1. UNCHANGED <<backend, log, written, reused, tail, at, held, offs, step, answered, batch>> /\ TailStep
        BY <1>10 DEF tailState, sagaState, TailStep
    <2>2. \A q \in log' : Passed(q.cat, q)' => Passed(q.cat, q)
        BY <2>1 DEF Passed
    <2> QED BY <2>1, <2>2, QuietTailKeepsSaga
<1> QED BY <1>1, <1>4, <1>5, <1>6, <1>7, <1>8, <1>9, <1>10, SagaPullKeeps, BatchPullKeeps, HandKeeps, CrashKeepsSaga DEF Sagas!Next

\* No two steps of one entity run side by side, for the counter has one value.
LEMMA TurnsKept ==
    SagaInv /\ Sagas!ExecutesAtItsTurn /\ [Sagas!Next]_<<tailState, sagaState>> => Sagas!ExecutesAtItsTurn'
<1> SUFFICES ASSUME SagaInv, Sagas!ExecutesAtItsTurn, [Sagas!Next]_<<tailState, sagaState>>,
                    NEW d \in Categories, kind' = "stateful", at'[d] \in {"exec", "settle"}
             PROVE  step'[held'[d].ent] = d
    BY DEF Sagas!ExecutesAtItsTurn
<1>1. /\ at = [c \in Categories |-> at[c]] /\ held = [c \in Categories |-> held[c]]
      /\ step = [e \in Entities |-> step[e]]
    BY DEF SagaInv, SagaShape
<1>2. \A c \in Categories : kind = "stateful" /\ at[c] \in {"exec", "settle"} => step[held[c].ent] = c
    BY DEF Sagas!ExecutesAtItsTurn
<1>3. CASE UNCHANGED <<kind, at, held, step>>
    BY <1>2, <1>3
<1>4. ASSUME NEW c \in Categories, NEW r, Sagas!Receive(c, r), at[c] = "pull" PROVE step'[held'[d].ent] = d
    <2>1. UNCHANGED <<kind, step>> /\ held' = [held EXCEPT ![c] = r]
        BY <1>4 DEF Sagas!Receive
    <2>2. CASE d = c
        BY <1>1, <1>4, <2>1, <2>2 DEF Sagas!Receive, Sagas!Goto
    <2>3. CASE d # c
        <3>1. at'[d] = at[d] /\ held'[d] = held[d]
            BY <1>1, <1>4, <2>1, <2>3 DEF Sagas!Receive, Sagas!Goto
        <3> QED BY <1>2, <2>1, <3>1
    <2> QED BY <2>2, <2>3
<1>5. ASSUME NEW c \in Categories, Sagas!TakeTurn(c) \/ Sagas!Execute(c) \/ Sagas!Fail(c) \/ Sagas!Compensated(c) \/ Sagas!Advance(c)
      PROVE  step'[held'[d].ent] = d
    <2>1. UNCHANGED <<kind, held, step>>
        BY <1>5 DEF Sagas!TakeTurn, Sagas!Execute, Sagas!Fail, Sagas!Compensated, Sagas!Advance
    <2>2. CASE d # c
        <3>1. at'[d] = at[d]
            BY <1>1, <1>5, <2>2 DEF Sagas!TakeTurn, Sagas!Execute, Sagas!Fail, Sagas!Compensated, Sagas!Advance, Sagas!Goto
        <3> QED BY <1>2, <2>1, <3>1
    <2>3. CASE d = c
        <3>1. CASE Sagas!TakeTurn(c)
            BY <1>1, <2>1, <2>3, <3>1 DEF Sagas!TakeTurn, Sagas!Goto, Sagas!AtItsTurn
        <3>2. CASE Sagas!Execute(c)
            BY <1>2, <2>1, <2>3, <3>2 DEF Sagas!Execute
        <3>3. CASE Sagas!Fail(c) \/ Sagas!Compensated(c) \/ Sagas!Advance(c)
            BY <1>1, <2>1, <2>3, <3>3 DEF Sagas!Fail, Sagas!Compensated, Sagas!Advance, Sagas!Goto
        <3> QED BY <1>5, <3>1, <3>2, <3>3
    <2> QED BY <2>2, <2>3
<1>6. ASSUME NEW c \in Categories, Sagas!Succeed(c) PROVE step'[held'[d].ent] = d
    <2>1. /\ kind = "stateful" /\ at[c] = "settle" /\ UNCHANGED held
          /\ at' = [at EXCEPT ![c] = "advance"] /\ step' = [step EXCEPT ![held[c].ent] = c + 1]
        BY <1>6 DEF Sagas!Succeed, Sagas!Goto
    <2>2. d # c /\ at'[d] = at[d]
        BY <1>1, <2>1
    <2>3. step[held[c].ent] = c /\ step[held[d].ent] = d
        BY <1>2, <2>1, <2>2
    <2>4. held[d].ent # held[c].ent
        BY <2>2, <2>3
    <2>5. held[d].ent \in Entities
        BY <2>2 DEF SagaInv, HandInOrder, Genuine, AnyRow
    <2> QED BY <1>1, <2>1, <2>3, <2>4, <2>5
<1>7. CASE Sagas!Crash
    BY <1>7 DEF Sagas!Crash
<1>8. ASSUME NEW c \in Categories, Sagas!TailPull(c) \/ Sagas!BatchPull(c) PROVE step'[held'[d].ent] = d
    BY <1>4, <1>8 DEF Sagas!TailPull, Sagas!BatchPull
<1>9. CASE \/ UNCHANGED Sagas!sagaVars \/ UNCHANGED <<tailState, sagaState>> \/ Sagas!StartRun \/ \E c \in Categories : Sagas!BatchNext(c)
    BY <1>3, <1>9 DEF Sagas!sagaVars, sagaState, Sagas!StartRun, Sagas!BatchNext
<1> QED BY <1>5, <1>6, <1>7, <1>8, <1>9 DEF Sagas!Next

LEMMA InitSaga == Init => SagaInv /\ Sagas!ExecutesAtItsTurn
<1> SUFFICES ASSUME Init PROVE SagaInv /\ Sagas!ExecutesAtItsTurn
    OBVIOUS
<1>1. TailInv /\ log = {} /\ written = [c \in Categories |-> [e \in Entities |-> 0]]
    BY TailsStart DEF Init, Proj!Init, Proj!TailInit
<1>2. /\ at = [c \in Categories |-> "pull"] /\ held = [c \in Categories |-> Sagas!NoRecord]
      /\ offs = [c \in Categories |-> [e \in Entities |-> 0]] /\ step = [e \in Entities |-> 0] /\ batch = Sagas!NoBatch
    BY DEF Init, Sagas!Init
<1>3. SagaShape
    BY <1>1, <1>2 DEF SagaShape, Sagas!NoBatch
<1> QED BY <1>1, <1>2, <1>3 DEF SagaInv, Sagas!NoUntriedEvent, PassedTried, HandInOrder, BatchInOrder, Sagas!NoBatch, Sagas!ExecutesAtItsTurn

LEMMA SagaSteps ==
    ASSUME [Next]_vars
    PROVE  deployed' = deployed /\ (deployed = "saga" => [Sagas!Next]_<<tailState, sagaState>>)
BY DEF Next, vars, ProjectionRuns, SagaRuns, ClientRuns, CommandsRun, FeedsRun, BridgeRuns, HaRuns, WindowsRun

\* Where a saga is deployed: no matching event at or below an offset its loop stored was passed
\* over without being tried, unless it stands under a reused row number; and a handler of a
\* stateful saga runs while the counter is at its step, so no two of one entity run side by side.
THEOREM SagaIsSound == Spec => []SagaSound
<1> DEFINE Inv == deployed = "saga" => SagaInv /\ Sagas!ExecutesAtItsTurn
<1>1. Init => Inv
    BY InitSaga
<1>2. Inv /\ [Next]_vars => Inv'
    BY SagaSteps, StepKeepsSaga, TurnsKept
<1>3. Inv => SagaSound
    BY DEF SagaInv, SagaSound
<1> QED BY <1>1, <1>2, <1>3, PTL DEF Spec

-----------------------------------------------------------------------------
(* Windows: the entries kept.                                               *)

WindowSample == [at : Nat, value : Int, seen : Nat]
WindowEntry == [at : Nat, value : Int]

SamplesInv ==
    /\ clock \in Nat /\ samples \in Seq(WindowSample)
    /\ \A i \in DOMAIN samples : samples[i].at <= clock

\* The entries es are samples of ss, each once, and all the samples since a time are among them.
Holds(es, ss, from, g) ==
    /\ g \in [DOMAIN es -> DOMAIN ss]
    /\ \A k, m \in DOMAIN es : g[k] = g[m] => k = m
    /\ \A k \in DOMAIN es : es[k].at = ss[g[k]].at
    /\ \A i \in DOMAIN ss : ss[i].at >= from => \E k \in DOMAIN es : g[k] = i

EntriesInv ==
    /\ entries \in Seq(WindowEntry)
    /\ \E g : Holds(entries, samples, clock - WindowMs, g)

\* The windows sort and sum up as Sorting and Functions do.
LEMMA WindowsSort ==
    ASSUME NEW I, NEW key
    PROVE  Win!StableSort(I, key) = StableSort(I, key)
<1>1. \A S : Win!Cardinality(S) = Cardinality(S)
    BY DEF Win!Cardinality, Cardinality
<1>2. ASSUME NEW i PROVE Cardinality(Win!Ahead(I, key, i)) = Cardinality(Ahead(I, key, i))
    BY DEF Win!Ahead, Ahead, Win!Earlier, Earlier
<1>3. Win!StableSort(I, key) = [m \in 1 .. Cardinality(I) |->
          CHOOSE i \in I : Cardinality(Win!Ahead(I, key, i)) = m - 1]
    BY <1>1 DEF Win!StableSort
<1>4. \A m : (CHOOSE i \in I : Cardinality(Win!Ahead(I, key, i)) = m - 1)
           = (CHOOSE i \in I : Cardinality(Ahead(I, key, i)) = m - 1)
    BY <1>2
<1> HIDE DEF Ahead
<1> QED BY <1>3, <1>4 DEF StableSort

LEMMA WindowsSum ==
    ASSUME NEW f, NEW S
    PROVE  Win!SumFunctionOnSet(f, S) = SumFunctionOnSet(f, S) /\ Win!Cardinality(S) = Cardinality(S)
<1>1. Win!SumFunctionOnSet(f, S) = SumFunctionOnSet(f, S)
    BY Zenon DEF SumFunctionOnSet, FoldFunctionOnSet, MapThenFoldSet,
                 Win!SumFunctionOnSet, Win!FoldFunctionOnSet, Win!MapThenFoldSet
<1>2. Win!Cardinality(S) = Cardinality(S)
    BY DEF Win!Cardinality, Cardinality
<1> QED BY <1>1, <1>2

\* The positions of the entries that are not older than the window.
KeptOf(es, n) == {k \in DOMAIN es : es[k].at >= n - WindowMs}

\* What is retained is what is kept, arranged by order, and the times do not rise.
Arranged(es, n, order) ==
    /\ Cardinality(KeptOf(es, n)) \in Nat
    /\ order \in [1 .. Cardinality(KeptOf(es, n)) -> KeptOf(es, n)]
    /\ \A a, b \in 1 .. Cardinality(KeptOf(es, n)) : order[a] = order[b] => a = b
    /\ \A k \in KeptOf(es, n) : \E a \in 1 .. Cardinality(KeptOf(es, n)) : order[a] = k
    /\ Win!RetainEntries(es, n) = [a \in 1 .. Cardinality(KeptOf(es, n)) |-> es[order[a]]]
    /\ \A a, b \in 1 .. Cardinality(KeptOf(es, n)) : a < b => es[order[a]].at >= es[order[b]].at

LEMMA RetainArranges ==
    ASSUME NEW es \in Seq(WindowEntry), NEW n \in Int
    PROVE  \E order : Arranged(es, n, order)
<1> DEFINE K == KeptOf(es, n)
           key == [k \in K |-> -es[k].at]
           order == StableSort(K, key)
           rank == RankOf(K, key)
<1>1. K \in SUBSET DOMAIN es /\ \A k \in K : es[k] \in WindowEntry
    BY DEF KeptOf
<1>2. IsFiniteSet(DOMAIN es) /\ DOMAIN es \subseteq Int
    <2>1. PICK m \in Nat : DOMAIN es = 1 .. m
        OBVIOUS
    <2> QED BY <2>1, CountTo
<1>3. Sortable(K, key)
    <2>1. IsFiniteSet(K)
        BY <1>1, <1>2, FS_Subset
    <2>2. \A k \in K : -es[k].at \in Int
        BY <1>1 DEF WindowEntry
    <2> HIDE DEF K
    <2> QED BY <1>1, <1>2, <2>1, <2>2 DEF Sortable
<1>4. PICK c \in Nat : c = Cardinality(K)
    <2> HIDE DEF K, key
    <2> QED BY <1>3, Sorted
<1>5. /\ order \in [1 .. c -> K]
      /\ \A a \in 1 .. c : rank[order[a]] = a
      /\ \A k \in K : order[rank[k]] = k /\ rank[k] \in 1 .. c
    <2> HIDE DEF K, key
    <2> QED BY <1>3, <1>4, Sorted, RankIsBijective
<1>6. \A a, b \in 1 .. c : a < b => Earlier(key, order[a], order[b])
    <2> HIDE DEF K, key
    <2> QED BY <1>3, <1>4, SortedAscends
<1>7. Win!RetainEntries(es, n) = [a \in DOMAIN order |-> es[order[a]]]
    <2>1. Win!StableSort(K, key) = order
        BY WindowsSort
    <2> HIDE DEF order
    <2> QED BY <2>1 DEF Win!RetainEntries, KeptOf
<1> HIDE DEF order, rank
<1>8. ASSUME NEW a \in 1 .. c, NEW b \in 1 .. c, a < b PROVE es[order[a]].at >= es[order[b]].at
    <2>1. PICK x \in K, y \in K : x = order[a] /\ y = order[b]
        BY <1>5
    <2>2. key[x] <= key[y]
        <3>1. Earlier(key, x, y)
            BY <1>6, <1>8, <2>1
        <3>2. key[x] \in Int /\ key[y] \in Int
            BY <1>3 DEF Sortable
        <3> HIDE DEF key
        <3> QED BY <3>1, <3>2 DEF Earlier
    <2>3. key[x] = -es[x].at /\ key[y] = -es[y].at
        OBVIOUS
    <2>4. es[x].at \in Int /\ es[y].at \in Int
        BY <1>1 DEF WindowEntry
    <2> HIDE DEF key, K
    <2>5. es[x].at >= es[y].at
        BY <2>2, <2>3, <2>4
    <2> QED BY <2>1, <2>5
<1> HIDE DEF K, key
<1>9. \A a, b \in 1 .. c : order[a] = order[b] => a = b
    BY <1>5
<1>10. \A k \in K : \E a \in 1 .. c : order[a] = k
    BY <1>5
<1>11. DOMAIN order = 1 .. c
    BY <1>5
<1> QED BY <1>4, <1>5, <1>7, <1>8, <1>9, <1>10, <1>11 DEF Arranged, K

\* The event window after a sample holds what it held, without what left it, and the sample.
LEMMA SampleKeepsEntries ==
    ASSUME WindowMs \in Nat, SamplesInv, EntriesInv, NEW w \in Int, NEW lag \in Nat, lag <= clock,
           samples' = Append(samples, [at |-> clock - lag, value |-> w, seen |-> clock]),
           entries' = Win!RetainEntries(<<[at |-> clock - lag, value |-> w]>> \o entries, clock - lag),
           clock' = clock
    PROVE  SamplesInv' /\ EntriesInv'
<1>1. PICK t \in Nat : t = clock - lag
    BY DEF SamplesInv
<1>2. PICK s : s = [at |-> t, value |-> w, seen |-> clock]
    OBVIOUS
<1>3. PICK e : e = [at |-> t, value |-> w]
    OBVIOUS
<1>4. s \in WindowSample /\ s.at = t /\ t <= clock /\ e \in WindowEntry /\ e.at = t
    BY <1>1, <1>2, <1>3 DEF SamplesInv, WindowSample, WindowEntry
<1>5. PICK n \in Nat : n = Len(samples) /\ DOMAIN samples = 1 .. n
    BY DEF SamplesInv
<1>6. samples' = Append(samples, s)
    BY <1>1, <1>2
<1>7. /\ samples' \in Seq(WindowSample) /\ DOMAIN samples' = 1 .. n + 1
      /\ samples'[n + 1] = s /\ \A i \in 1 .. n : samples'[i] = samples[i]
    BY <1>4, <1>5, <1>6 DEF SamplesInv
<1>8. SamplesInv'
    <2>1. ASSUME NEW i \in 1 .. n + 1 PROVE samples'[i].at <= clock
        <3>1. CASE i = n + 1
            BY <1>4, <1>7, <3>1
        <3>2. CASE i \in 1 .. n
            <4>1. samples[i].at <= clock
                BY <1>5, <3>2 DEF SamplesInv
            <4>2. samples'[i] = samples[i]
                BY <1>7, <3>2
            <4> QED BY <4>1, <4>2
        <3>3. i = n + 1 \/ i \in 1 .. n
            OBVIOUS
        <3> QED BY <3>1, <3>2, <3>3
    <2> QED BY <1>7, <2>1 DEF SamplesInv
<1>9. PICK g : Holds(entries, samples, clock - WindowMs, g)
    BY DEF EntriesInv
<1>10. PICK cand : cand = <<e>> \o entries
    OBVIOUS
<1>11. PICK m \in Nat : m = Len(entries) /\ DOMAIN entries = 1 .. m
    BY DEF EntriesInv
<1>12. /\ cand \in Seq(WindowEntry) /\ DOMAIN cand = 1 .. m + 1
       /\ cand[1] = e /\ \A k \in 1 .. m : cand[k + 1] = entries[k]
    BY <1>4, <1>10, <1>11 DEF EntriesInv
<1>13. PICK order : Arranged(cand, t, order)
    BY <1>12, RetainArranges
<1>14. entries' = Win!RetainEntries(cand, t)
    BY <1>1, <1>3, <1>10
<1>15. PICK K : K = KeptOf(cand, t)
    OBVIOUS
<1>16. PICK c \in Nat : c = Cardinality(K)
    BY <1>13, <1>15 DEF Arranged
<1>17. /\ order \in [1 .. c -> K] /\ \A a, b \in 1 .. c : order[a] = order[b] => a = b
       /\ \A k \in K : \E a \in 1 .. c : order[a] = k
       /\ entries' = [a \in 1 .. c |-> cand[order[a]]]
    BY <1>13, <1>14, <1>15, <1>16 DEF Arranged
<1>18. K \in SUBSET (1 .. m + 1) /\ \A k \in 1 .. m + 1 : cand[k].at >= t - WindowMs => k \in K
    BY <1>12, <1>15 DEF KeptOf
<1>19. entries' \in Seq(WindowEntry) /\ DOMAIN entries' = 1 .. c
    <2>1. ASSUME NEW a \in 1 .. c PROVE cand[order[a]] \in WindowEntry
        <3>1. PICK p \in 1 .. m + 1 : p = order[a]
            BY <1>17, <1>18
        <3>2. cand[p] \in WindowEntry
            BY <1>12
        <3> QED BY <3>1, <3>2
    <2>2. PICK r : r = entries'
        OBVIOUS
    <2>3. r \in [1 .. c -> WindowEntry]
        BY <1>17, <2>1, <2>2
    <2>4. r \in Seq(WindowEntry) /\ DOMAIN r = 1 .. c
        BY <2>3
    <2> QED BY <2>2, <2>4
<1> DEFINE old == [k \in 1 .. m + 1 |-> IF k = 1 THEN n + 1 ELSE g[k - 1]]
           h == [a \in 1 .. c |-> old[order[a]]]
<1>20. \A k \in 1 .. m + 1 : /\ old[k] \in 1 .. n + 1 /\ cand[k].at = samples'[old[k]].at
                             /\ k # 1 => k - 1 \in 1 .. m /\ old[k] = g[k - 1] /\ old[k] \in 1 .. n
                             /\ k = 1 => old[k] = n + 1
    <2> SUFFICES ASSUME NEW k \in 1 .. m + 1
                 PROVE  /\ old[k] \in 1 .. n + 1 /\ cand[k].at = samples'[old[k]].at
                        /\ k # 1 => k - 1 \in 1 .. m /\ old[k] = g[k - 1] /\ old[k] \in 1 .. n
                        /\ k = 1 => old[k] = n + 1
        OBVIOUS
    <2>1. CASE k = 1
        BY <1>4, <1>7, <1>12, <2>1
    <2>2. CASE k # 1
        <3>1. PICK p \in 1 .. m : k = p + 1 /\ p = k - 1
            BY <2>2
        <3>2. old[k] = g[p] /\ g[p] \in 1 .. n /\ entries[p].at = samples[g[p]].at
            BY <1>5, <1>9, <1>11, <2>2, <3>1 DEF Holds
        <3>3. cand[k] = entries[p]
            BY <1>12, <3>1
        <3> HIDE DEF old
        <3> QED BY <1>7, <2>2, <3>1, <3>2, <3>3
    <2> QED BY <2>1, <2>2
<1>21. \A k, p \in 1 .. m + 1 : old[k] = old[p] => k = p
    <2> SUFFICES ASSUME NEW k \in 1 .. m + 1, NEW p \in 1 .. m + 1, old[k] = old[p] PROVE k = p
        OBVIOUS
    <2> HIDE DEF old
    <2>1. k = 1 <=> p = 1
        BY <1>20
    <2>2. ASSUME k # 1 PROVE k = p
        <3>1. k - 1 \in 1 .. m /\ p - 1 \in 1 .. m /\ g[k - 1] = g[p - 1]
            BY <1>20, <2>1, <2>2
        <3>2. k - 1 = p - 1
            BY <1>9, <1>11, <3>1 DEF Holds
        <3> QED BY <3>2
    <2> QED BY <2>1, <2>2
<1>22. \A i \in 1 .. n + 1 : samples'[i].at >= clock - WindowMs => \E k \in K : old[k] = i
    <2> SUFFICES ASSUME NEW i \in 1 .. n + 1, samples'[i].at >= clock - WindowMs
                 PROVE  \E k \in K : old[k] = i
        OBVIOUS
    <2>1. PICK k \in 1 .. m + 1 : old[k] = i
        <3>1. CASE i = n + 1
            BY <3>1
        <3>2. CASE i \in 1 .. n
            <4>1. samples[i].at >= clock - WindowMs
                BY <1>7, <3>2
            <4>2. PICK p \in 1 .. m : g[p] = i
                BY <1>5, <1>9, <1>11, <3>2, <4>1 DEF Holds
            <4>3. p + 1 \in 1 .. m + 1 /\ p + 1 # 1 /\ (p + 1) - 1 = p
                OBVIOUS
            <4>4. old[p + 1] = i
                BY <4>2, <4>3
            <4> QED BY <4>3, <4>4
        <3> QED BY <3>1, <3>2
    <2> HIDE DEF old
    <2>2. PICK q \in Nat : cand[k].at = q
        <3>1. cand[k] \in WindowEntry
            BY <1>12
        <3> QED BY <3>1 DEF WindowEntry
    <2>3. q >= clock - WindowMs
        BY <1>20, <2>1, <2>2
    <2>4. q >= t - WindowMs
        BY <1>4, <2>3 DEF SamplesInv
    <2> QED BY <1>18, <2>1, <2>2, <2>4
<1> HIDE DEF old
<1>23. \A a \in 1 .. c : order[a] \in K /\ order[a] \in 1 .. m + 1 /\ h[a] = old[order[a]]
    BY <1>17, <1>18
<1>24. h \in [1 .. c -> 1 .. n + 1]
    BY <1>20, <1>23
<1> HIDE DEF h
<1>25. \A a, b \in 1 .. c : h[a] = h[b] => a = b
    BY <1>17, <1>21, <1>23
<1>26. ASSUME NEW a \in 1 .. c PROVE entries'[a].at = samples'[h[a]].at
    <2>1. PICK p \in 1 .. m + 1 : p = order[a] /\ h[a] = old[p]
        BY <1>23
    <2>2. entries'[a] = cand[p]
        BY <1>17, <2>1
    <2> QED BY <1>20, <2>1, <2>2
<1>27. ASSUME NEW i \in 1 .. n + 1, samples'[i].at >= clock - WindowMs PROVE \E a \in 1 .. c : h[a] = i
    <2>1. PICK k \in K : old[k] = i
        BY <1>22, <1>27
    <2>2. PICK a \in 1 .. c : order[a] = k
        BY <1>17
    <2> QED BY <1>23, <2>1, <2>2
<1>28. Holds(entries', samples', clock - WindowMs, h)
    BY <1>7, <1>19, <1>24, <1>25, <1>26, <1>27 DEF Holds
<1>29. EntriesInv'
    BY <1>19, <1>28 DEF EntriesInv
<1> QED BY <1>8, <1>29

\* The event window shows the samples of the window, newest first.
LEMMA EntriesAreExact ==
    ASSUME WindowMs \in Nat, SamplesInv, EntriesInv
    PROVE  /\ Len(Win!ReadEntries) = Cardinality(Win!Inside(WindowMs))
           /\ \A k \in DOMAIN Win!ReadEntries : k > 1 => Win!ReadEntries[k - 1].at >= Win!ReadEntries[k].at
<1>1. PICK R : R = Win!ReadEntries
    OBVIOUS
<1>2. PICK K, V : K = KeptOf(entries, clock) /\ V = Win!Inside(WindowMs)
    OBVIOUS
<1>3. PICK order : Arranged(entries, clock, order)
    BY RetainArranges DEF EntriesInv, SamplesInv
<1>4. PICK c \in Nat : c = Cardinality(K)
    BY <1>2, <1>3 DEF Arranged
<1>5. /\ order \in [1 .. c -> K] /\ R = [a \in 1 .. c |-> entries[order[a]]]
      /\ \A a, b \in 1 .. c : a < b => entries[order[a]].at >= entries[order[b]].at
    BY <1>1, <1>2, <1>3, <1>4 DEF Arranged, Win!ReadEntries
<1>6. Len(R) = c /\ DOMAIN R = 1 .. c
    BY <1>5
<1>7. ASSUME NEW k \in 1 .. c, k > 1 PROVE R[k - 1].at >= R[k].at
    <2>1. k - 1 \in 1 .. c /\ k - 1 < k
        BY <1>7
    <2>2. entries[order[k - 1]].at >= entries[order[k]].at
        BY <1>5, <2>1
    <2> QED BY <1>5, <2>1, <2>2
<1>8. PICK g : Holds(entries, samples, clock - WindowMs, g)
    BY DEF EntriesInv
<1>9. /\ K \in SUBSET DOMAIN entries /\ \A k \in DOMAIN entries : k \in K <=> entries[k].at >= clock - WindowMs
      /\ V \in SUBSET DOMAIN samples /\ \A i \in DOMAIN samples : i \in V <=> samples[i].at >= clock - WindowMs
    BY <1>2 DEF KeptOf, Win!Inside
<1> DEFINE f == [k \in K |-> g[k]]
<1>10. f \in [K -> V] /\ \A a, b \in K : f[a] = f[b] => a = b
    BY <1>8, <1>9 DEF Holds
<1>11. \A i \in V : \E k \in K : f[k] = i
    <2> SUFFICES ASSUME NEW i \in V PROVE \E k \in K : f[k] = i
        OBVIOUS
    <2>1. PICK k \in DOMAIN entries : g[k] = i
        BY <1>8, <1>9 DEF Holds
    <2>2. k \in K
        BY <1>8, <1>9, <2>1 DEF Holds
    <2> QED BY <2>1, <2>2
<1> HIDE DEF f
<1>12. IsFiniteSet(K)
    <2>1. PICK m \in Nat : DOMAIN entries = 1 .. m
        BY DEF EntriesInv
    <2>2. IsFiniteSet(1 .. m)
        BY CountTo
    <2> QED BY <1>9, <2>1, <2>2, FS_Subset
<1>13. f \in Surjection(K, V) /\ f \in Injection(K, V)
    BY <1>10, <1>11 DEF Surjection, Injection, IsInjective
<1>14. Cardinality(V) = Cardinality(K)
    BY <1>12, <1>13, FS_Surjection
<1> QED BY <1>1, <1>2, <1>4, <1>6, <1>7, <1>14, WindowsSum

-----------------------------------------------------------------------------
(* Windows: the tiles.                                                      *)

\* The samples a tile stands for, and their sum.
Bucket(ss, s) == {i \in DOMAIN ss : Win!TileStart(ss[i].at) = s}
ValuesOf(ss) == [i \in DOMAIN ss |-> ss[i].value]
ValueSum(ss, I) == SumFunctionOnSet(ValuesOf(ss), I)

\* The tile that starts at s counts and sums up its bucket.
TileExact(ts, ss, s) ==
    IF s \in DOMAIN ts THEN ts[s].count = Cardinality(Bucket(ss, s)) /\ ts[s].sum = ValueSum(ss, Bucket(ss, s))
    ELSE Bucket(ss, s) = {}

TilesInv ==
    /\ IsFiniteSet(DOMAIN tiles) /\ DOMAIN tiles \subseteq Nat
    /\ \A s \in DOMAIN tiles : s % HopMs = 0 /\ tiles[s].count \in Nat \ {0} /\ tiles[s].sum \in Int
    /\ \A s \in Nat : s + HopMs > clock - WindowMs => TileExact(tiles, samples, s)

\* A tile starts at or before what falls into it, by less than its length.
LEMMA TileStarts ==
    ASSUME NEW t \in Nat, HopMs \in Nat \ {0}
    PROVE  /\ Win!TileStart(t) \in Nat /\ Win!TileStart(t) <= t /\ t < Win!TileStart(t) + HopMs
           /\ Win!TileStart(t) % HopMs = 0
BY SMTT(40) DEF Win!TileStart

\* The samples are finitely many and have numbers for values.
LEMMA SamplesAreSummands ==
    ASSUME NEW ss \in Seq(WindowSample), NEW I \in SUBSET DOMAIN ss
    PROVE  Summands(ValuesOf(ss), I) /\ IsFiniteSet(I)
<1>1. PICK n \in Nat : DOMAIN ss = 1 .. n
    OBVIOUS
<1>2. IsFiniteSet(I)
    BY <1>1, CountTo, FS_Subset
<1>3. ASSUME NEW i \in I PROVE ValuesOf(ss)[i] \in Int
    <2>1. ss[i] \in WindowSample
        OBVIOUS
    <2> QED BY <2>1 DEF ValuesOf, WindowSample
<1> QED BY <1>2, <1>3 DEF Summands

Grown(ss, tt, x, s) ==
    IF s = Win!TileStart(x.at)
    THEN /\ Cardinality(Bucket(tt, s)) = Cardinality(Bucket(ss, s)) + 1
         /\ ValueSum(tt, Bucket(tt, s)) = ValueSum(ss, Bucket(ss, s)) + x.value
    ELSE Bucket(tt, s) = Bucket(ss, s) /\ ValueSum(tt, Bucket(tt, s)) = ValueSum(ss, Bucket(ss, s))

\* A sample goes into its bucket and leaves the other buckets alone.
LEMMA BucketGrows ==
    ASSUME NEW ss \in Seq(WindowSample), NEW x \in WindowSample, NEW tt, tt = Append(ss, x), NEW s
    PROVE  Grown(ss, tt, x, s)
<1>1. PICK n \in Nat : n = Len(ss) /\ DOMAIN ss = 1 .. n
    OBVIOUS
<1>2. /\ tt \in Seq(WindowSample) /\ DOMAIN tt = 1 .. n + 1
      /\ tt[n + 1] = x /\ \A i \in 1 .. n : tt[i] = ss[i]
    BY <1>1
<1>3. PICK B, C : B = Bucket(ss, s) /\ C = Bucket(tt, s)
    OBVIOUS
<1>4. /\ B \in SUBSET (1 .. n) /\ B \in SUBSET DOMAIN ss /\ B \in SUBSET DOMAIN tt /\ n + 1 \notin B
      /\ C = IF s = Win!TileStart(x.at) THEN B \cup {n + 1} ELSE B
    BY <1>1, <1>2, <1>3 DEF Bucket
<1>5. Summands(ValuesOf(ss), B) /\ Summands(ValuesOf(tt), B) /\ IsFiniteSet(B)
    BY <1>2, <1>4, SamplesAreSummands
<1>6. ValueSum(tt, B) = ValueSum(ss, B) /\ ValueSum(ss, B) \in Int
    <2>1. \A i \in B : ValuesOf(ss)[i] = ValuesOf(tt)[i]
        BY <1>1, <1>2, <1>4 DEF ValuesOf
    <2> QED BY <1>5, <2>1, SumAgrees, SumInt DEF ValueSum
<1>7. ValuesOf(tt)[n + 1] = x.value /\ x.value \in Int
    BY <1>2 DEF ValuesOf, WindowSample
<1>8. ValueSum(tt, B \cup {n + 1}) = ValueSum(tt, B) + x.value
    <2>1. SumFunctionOnSet(ValuesOf(tt), B \cup {n + 1}) = ValuesOf(tt)[n + 1] + SumFunctionOnSet(ValuesOf(tt), B)
        BY <1>4, <1>5, <1>7, SumGrows
    <2>2. SumFunctionOnSet(ValuesOf(tt), B) \in Int
        BY <1>5, SumInt
    <2> QED BY <1>7, <2>1, <2>2 DEF ValueSum
<1>9. Cardinality(B \cup {n + 1}) = Cardinality(B) + 1 /\ Cardinality(B) \in Nat
    BY <1>4, <1>5, FS_AddElement, FS_CardinalityType
<1>10. CASE s = Win!TileStart(x.at)
    <2>1. C = B \cup {n + 1} /\ C # {}
        BY <1>4, <1>10
    <2> QED BY <1>3, <1>6, <1>8, <1>9, <1>10, <2>1 DEF Grown
<1>11. CASE s # Win!TileStart(x.at)
    <2>1. C = B
        BY <1>4, <1>11
    <2> QED BY <1>3, <1>6, <1>11, <2>1 DEF Grown
<1> QED BY <1>10, <1>11

\* The tiles after a sample: what is still inside the window is exact.
LEMMA SampleKeepsTiles ==
    ASSUME WindowMs \in Nat, HopMs \in Nat \ {0}, SamplesInv, TilesInv, NEW w \in Int, NEW lag \in Nat, lag <= clock,
           samples' = Append(samples, [at |-> clock - lag, value |-> w, seen |-> clock]),
           tiles' = Win!RetainTiles(Win!AddToTile(tiles, clock - lag, w), clock - lag),
           clock' = clock
    PROVE  TilesInv'
<1>1. PICK t \in Nat : t = clock - lag /\ t <= clock
    BY DEF SamplesInv
<1>2. PICK x : x = [at |-> t, value |-> w, seen |-> clock]
    OBVIOUS
<1>3. x \in WindowSample /\ x.at = t /\ x.value = w
    BY <1>2 DEF SamplesInv, WindowSample
<1>4. PICK s0 \in Nat : s0 = Win!TileStart(t) /\ s0 % HopMs = 0 /\ s0 <= t /\ t < s0 + HopMs
    BY TileStarts
<1>5. PICK ss \in Seq(WindowSample) : ss = samples
    BY DEF SamplesInv
<1>17. PICK tt : tt = samples' /\ tt = Append(ss, x)
    BY <1>1, <1>2, <1>5
<1>6. PICK old : old = IF s0 \in DOMAIN tiles THEN tiles[s0] ELSE [count |-> 0, sum |-> 0]
    OBVIOUS
<1>7. old.count \in Nat /\ old.sum \in Int
    <2>1. CASE s0 \in DOMAIN tiles
        BY <1>6, <2>1 DEF TilesInv
    <2>2. CASE s0 \notin DOMAIN tiles
        BY <1>6, <2>2
    <2> QED BY <2>1, <2>2
<1>8. PICK new : new = [count |-> old.count + 1, sum |-> old.sum + w]
    OBVIOUS
<1>9. new.count = old.count + 1 /\ new.sum = old.sum + w /\ new.count \in Nat \ {0} /\ new.sum \in Int
    BY <1>7, <1>8
<1>10. PICK added : added = Win!AddToTile(tiles, t, w)
    OBVIOUS
<1>11. added = [s \in DOMAIN tiles \cup {s0} |-> IF s = s0 THEN new ELSE tiles[s]]
    BY <1>4, <1>6, <1>8, <1>10 DEF Win!AddToTile
<1>12. tiles' = [s \in {s \in DOMAIN added : s + HopMs > t - WindowMs} |-> added[s]]
    BY <1>1, <1>10 DEF Win!RetainTiles, Win!Restrict
<1>13. /\ \A s : s \in DOMAIN tiles' <=> s \in DOMAIN tiles \cup {s0} /\ s + HopMs > t - WindowMs
       /\ \A s \in DOMAIN tiles' : tiles'[s] = IF s = s0 THEN new ELSE tiles[s]
    BY <1>11, <1>12
<1>14. IsFiniteSet(DOMAIN tiles') /\ DOMAIN tiles' \subseteq Nat
    <2>1. IsFiniteSet(DOMAIN tiles \cup {s0})
        BY FS_AddElement DEF TilesInv
    <2>2. DOMAIN tiles' \in SUBSET (DOMAIN tiles \cup {s0})
        BY <1>13
    <2>3. IsFiniteSet(DOMAIN tiles')
        BY <2>1, <2>2, FS_Subset
    <2> QED BY <2>2, <2>3 DEF TilesInv
<1>15. ASSUME NEW s \in DOMAIN tiles'
       PROVE  s % HopMs = 0 /\ tiles'[s].count \in Nat \ {0} /\ tiles'[s].sum \in Int
    <2>1. CASE s = s0
        BY <1>4, <1>9, <1>13, <2>1
    <2>2. CASE s # s0
        <3>1. s \in DOMAIN tiles /\ tiles'[s] = tiles[s]
            BY <1>13, <2>2
        <3> QED BY <3>1 DEF TilesInv
    <2> QED BY <2>1, <2>2
<1>16. ASSUME NEW s \in Nat, s + HopMs > clock - WindowMs
       PROVE  TileExact(tiles', tt, s)
    <2>1. TileExact(tiles, ss, s)
        BY <1>5, <1>16 DEF TilesInv
    <2>2. s + HopMs > t - WindowMs
        BY <1>1, <1>16 DEF SamplesInv
    <2>3. s \in DOMAIN tiles' <=> s \in DOMAIN tiles \cup {s0}
        BY <1>13, <2>2
    <2>4. CASE s # s0
        <3>4. Grown(ss, tt, x, s) /\ s # Win!TileStart(x.at)
            BY <1>3, <1>4, <1>17, <2>4, BucketGrows
        <3>1. Bucket(tt, s) = Bucket(ss, s) /\ ValueSum(tt, Bucket(tt, s)) = ValueSum(ss, Bucket(ss, s))
            BY <3>4 DEF Grown
        <3>2. s \in DOMAIN tiles' => tiles'[s] = tiles[s]
            BY <1>13, <2>4
        <3>3. s \in DOMAIN tiles' <=> s \in DOMAIN tiles
            BY <2>3, <2>4
        <3> QED BY <2>1, <3>1, <3>2, <3>3 DEF TileExact
    <2>5. CASE s = s0
        <3>1. /\ Cardinality(Bucket(tt, s)) = Cardinality(Bucket(ss, s)) + 1
              /\ ValueSum(tt, Bucket(tt, s)) = ValueSum(ss, Bucket(ss, s)) + x.value
            BY <1>3, <1>4, <1>17, <2>5, BucketGrows DEF Grown
        <3>2. s \in DOMAIN tiles' /\ tiles'[s] = new
            BY <1>13, <2>3, <2>5
        <3>3. old.count = Cardinality(Bucket(ss, s)) /\ old.sum = ValueSum(ss, Bucket(ss, s))
            <4>1. CASE s \in DOMAIN tiles
                BY <1>6, <2>1, <2>5, <4>1 DEF TileExact
            <4>2. CASE s \notin DOMAIN tiles
                <5>1. Bucket(ss, s) = {} /\ old.count = 0 /\ old.sum = 0
                    BY <1>6, <2>1, <2>5, <4>2 DEF TileExact
                <5> QED BY <5>1, SumEmpty, FS_EmptySet DEF ValueSum
            <4> QED BY <4>1, <4>2
        <3>4. tiles'[s].count = Cardinality(Bucket(tt, s)) /\ tiles'[s].sum = ValueSum(tt, Bucket(tt, s))
            BY <1>3, <1>9, <3>1, <3>2, <3>3
        <3> QED BY <3>2, <3>4 DEF TileExact
    <2> QED BY <2>4, <2>5
<1> QED BY <1>17, <1>14, <1>15, <1>16 DEF TilesInv

\* The tiles still in the window count and sum up the samples of it, and none that is older
\* than the window and a tile.
LEMMA TilesAreExact ==
    ASSUME WindowMs \in Nat, HopMs \in Nat \ {0}, SamplesInv, TilesInv
    PROVE  \E covered \in SUBSET Win!Inside(WindowMs + HopMs - 1) :
              /\ Win!Inside(WindowMs) \subseteq covered
              /\ Win!Total("count") = Cardinality(covered) /\ Win!Total("sum") = Win!SumOf(covered)
<1>1. PICK ss \in Seq(WindowSample) : ss = samples
    BY DEF SamplesInv
<1>2. PICK R : R = {s \in DOMAIN tiles : s + HopMs > clock - WindowMs}
    OBVIOUS
<1>3. PICK bucket : bucket = [s \in R |-> Bucket(ss, s)]
    OBVIOUS
<1>4. R \in SUBSET Nat /\ R \in SUBSET DOMAIN tiles /\ IsFiniteSet(R)
    BY <1>2, FS_Subset DEF TilesInv
<1>5. \A s \in R : bucket[s] = Bucket(ss, s) /\ bucket[s] \in SUBSET DOMAIN ss
    BY <1>3 DEF Bucket
<1>6. \A s \in R : tiles[s].count = Cardinality(bucket[s]) /\ tiles[s].sum = ValueSum(ss, bucket[s])
    <2> SUFFICES ASSUME NEW s \in R
                 PROVE  tiles[s].count = Cardinality(bucket[s]) /\ tiles[s].sum = ValueSum(ss, bucket[s])
        OBVIOUS
    <2>1. TileExact(tiles, ss, s) /\ s \in DOMAIN tiles
        BY <1>1, <1>2, <1>4 DEF TilesInv
    <2> QED BY <1>5, <2>1 DEF TileExact
<1>7. \A s, u \in R : s # u => bucket[s] \cap bucket[u] = {}
    BY <1>5 DEF Bucket
<1>8. PICK covered : covered = UNION {bucket[s] : s \in R}
    OBVIOUS
<1>9. \A i : i \in covered <=> i \in DOMAIN ss /\ Win!TileStart(ss[i].at) + HopMs > clock - WindowMs
    <2>1. \A i : i \in covered <=> \E s \in R : i \in Bucket(ss, s)
        BY <1>5, <1>8
    <2>2. ASSUME NEW i \in DOMAIN ss, Win!TileStart(ss[i].at) + HopMs > clock - WindowMs
          PROVE  Win!TileStart(ss[i].at) \in R /\ i \in Bucket(ss, Win!TileStart(ss[i].at))
        <3>1. PICK t \in Nat : t = ss[i].at
            <4>1. ss[i] \in WindowSample
                OBVIOUS
            <4> QED BY <4>1 DEF WindowSample
        <3>2. PICK s \in Nat : s = Win!TileStart(t)
            BY TileStarts
        <3>3. i \in Bucket(ss, s)
            BY <3>1, <3>2 DEF Bucket
        <3>4. TileExact(tiles, ss, s)
            BY <1>1, <2>2, <3>1, <3>2 DEF TilesInv
        <3>5. s \in DOMAIN tiles
            BY <3>3, <3>4 DEF TileExact
        <3> QED BY <1>2, <2>2, <3>1, <3>2, <3>3, <3>5
    <2>3. ASSUME NEW s \in R, NEW i \in Bucket(ss, s)
          PROVE  i \in DOMAIN ss /\ Win!TileStart(ss[i].at) + HopMs > clock - WindowMs
        BY <1>2 DEF Bucket
    <2> QED BY <2>1, <2>2, <2>3
<1>10. covered \in SUBSET Win!Inside(WindowMs + HopMs - 1) /\ Win!Inside(WindowMs) \subseteq covered
    <2>1. ASSUME NEW i \in DOMAIN ss
          PROVE  /\ Win!TileStart(ss[i].at) + HopMs > clock - WindowMs => ss[i].at >= clock - (WindowMs + HopMs - 1)
                 /\ ss[i].at >= clock - WindowMs => Win!TileStart(ss[i].at) + HopMs > clock - WindowMs
        <3>1. PICK t \in Nat : t = ss[i].at
            <4>1. ss[i] \in WindowSample
                OBVIOUS
            <4> QED BY <4>1 DEF WindowSample
        <3>2. PICK s \in Nat : s = Win!TileStart(t) /\ s <= t /\ t < s + HopMs
            BY TileStarts
        <3>3. clock \in Int
            BY DEF SamplesInv
        <3>4. /\ s + HopMs > clock - WindowMs => t >= clock - (WindowMs + HopMs - 1)
              /\ t >= clock - WindowMs => s + HopMs > clock - WindowMs
            BY <3>2, <3>3
        <3> QED BY <3>1, <3>2, <3>4
    <2>2. \A n : \A i : i \in Win!Inside(n) <=> i \in DOMAIN ss /\ ss[i].at >= clock - n
        BY <1>1 DEF Win!Inside
    <2> QED BY <1>9, <2>1, <2>2
<1>11. \A s \in R : Summands(ValuesOf(ss), bucket[s]) /\ IsFiniteSet(bucket[s])
    BY <1>5, SamplesAreSummands
<1>12. covered \in SUBSET DOMAIN ss
    BY <1>9
<1>13. Win!Total("sum") = ValueSum(ss, covered)
    <2>1. PICK h : h = [s \in DOMAIN tiles |-> tiles[s]["sum"]]
        OBVIOUS
    <2>2. \A s \in R : h[s] = SumFunctionOnSet(ValuesOf(ss), bucket[s])
        BY <1>4, <1>6, <2>1 DEF ValueSum
    <2>6. Bucketed(ValuesOf(ss), R, bucket, h, covered)
        BY <1>7, <1>8, <1>11, <2>2 DEF Bucketed
    <2>3. SumFunctionOnSet(h, R) = SumFunctionOnSet(ValuesOf(ss), covered)
        BY <1>4, <2>6, SumOfBuckets
    <2>4. DOMAIN Win!RetainTiles(tiles, clock) = R
        BY <1>2 DEF Win!RetainTiles, Win!Restrict
    <2>5. Win!Total("sum") = SumFunctionOnSet(h, R)
        BY <2>1, <2>4, WindowsSum DEF Win!Total
    <2> QED BY <2>3, <2>5 DEF ValueSum
<1>14. Win!Total("count") = Cardinality(covered)
    <2>1. PICK h : h = [s \in DOMAIN tiles |-> tiles[s]["count"]]
        OBVIOUS
    <2>2. PICK one : one = [i \in DOMAIN ss |-> 1]
        OBVIOUS
    <2>3. \A s \in R : Summands(one, bucket[s]) /\ h[s] = SumFunctionOnSet(one, bucket[s])
        <3> SUFFICES ASSUME NEW s \in R
                     PROVE  Summands(one, bucket[s]) /\ h[s] = SumFunctionOnSet(one, bucket[s])
            OBVIOUS
        <3>1. PICK B : B = bucket[s]
            OBVIOUS
        <3>2. IsFiniteSet(B) /\ \A i \in B : one[i] = 1
            BY <1>5, <1>11, <2>2, <3>1
        <3>3. SumFunctionOnSet(one, B) = Cardinality(B)
            BY <3>2, SumOfOnes
        <3>4. h[s] = Cardinality(B)
            BY <1>4, <1>6, <2>1, <3>1
        <3>5. Summands(one, B)
            BY <3>2 DEF Summands
        <3> QED BY <3>1, <3>3, <3>4, <3>5
    <2>8. Bucketed(one, R, bucket, h, covered)
        BY <1>7, <1>8, <2>3 DEF Bucketed
    <2>4. SumFunctionOnSet(h, R) = SumFunctionOnSet(one, covered)
        BY <1>4, <2>8, SumOfBuckets
    <2>5. SumFunctionOnSet(one, covered) = Cardinality(covered)
        <3>1. IsFiniteSet(covered)
            BY <1>12, SamplesAreSummands
        <3>2. \A i \in covered : one[i] = 1
            BY <1>12, <2>2
        <3> QED BY <3>1, <3>2, SumOfOnes
    <2>6. DOMAIN Win!RetainTiles(tiles, clock) = R
        BY <1>2 DEF Win!RetainTiles, Win!Restrict
    <2>7. Win!Total("count") = SumFunctionOnSet(h, R)
        BY <2>1, <2>6, WindowsSum DEF Win!Total
    <2> QED BY <2>4, <2>5, <2>7
<1>15. Win!SumOf(covered) = ValueSum(ss, covered)
    BY <1>1, WindowsSum DEF Win!SumOf, ValueSum, ValuesOf
<1> QED BY <1>10, <1>13, <1>14, <1>15

-----------------------------------------------------------------------------
(* Windows: the detectors.                                                  *)

Last == samples[Len(samples)]

\* While the threshold is pending, it held since a sample seen at that time.
SustainInv ==
    /\ sustained \in [phase : {"idle", "pending", "active"}, since : Int] /\ fired \in BOOLEAN
    /\ sustained.phase = "pending" =>
          \E i \in DOMAIN samples : /\ samples[i].seen = sustained.since
                                    /\ \A j \in i .. Len(samples) : samples[j].value >= Threshold
    /\ fired => \E i \in DOMAIN samples : /\ Last.seen - samples[i].seen >= SustainMs
                                          /\ \A j \in i .. Len(samples) : samples[j].value >= Threshold

\* What is reported and the rise since the anchor are no more than the counter rose.
RiseInv ==
    /\ increments \in Int /\ anchor \in [at : Int, value : Int]
    /\ anchor.at = Win!None => samples = << >> /\ increments = 0
    /\ anchor.at # Win!None => /\ samples # << >> /\ Last.value >= anchor.value
                               /\ increments + (Last.value - anchor.value) <= Win!TotalRise

WindowInv == SamplesInv /\ EntriesInv /\ TilesInv /\ SustainInv /\ RiseInv

\* The samples after one more.
Longer(ss, x, tt, n) == /\ n = Len(ss) /\ DOMAIN ss = 1 .. n
                        /\ Len(tt) = n + 1 /\ DOMAIN tt = 1 .. n + 1
                        /\ tt[n + 1] = x /\ \A i \in 1 .. n : tt[i] = ss[i]

LEMMA OneMore ==
    ASSUME NEW ss \in Seq(WindowSample), NEW x, NEW tt, tt = Append(ss, x)
    PROVE  \E n \in Nat : Longer(ss, x, tt, n)
<1>1. PICK n \in Nat : n = Len(ss) /\ DOMAIN ss = 1 .. n
    OBVIOUS
<1>2. tt \in Seq(WindowSample \cup {x}) /\ Len(tt) = n + 1 /\ DOMAIN tt = 1 .. n + 1
    <2>1. ss \in Seq(WindowSample \cup {x}) /\ x \in WindowSample \cup {x}
        OBVIOUS
    <2>2. PICK uu \in Seq(WindowSample \cup {x}) : uu = Append(ss, x)
        BY <2>1
    <2>3. Len(uu) = n + 1
        BY <1>1, <2>1, <2>2
    <2> QED BY <2>2, <2>3
<1>3. tt[n + 1] = x
    BY <1>1
<1>4. \A i \in 1 .. n : tt[i] = ss[i]
    BY <1>1
<1> QED BY <1>1, <1>2, <1>3, <1>4 DEF Longer

LEMMA SampleKeepsSustained ==
    ASSUME Threshold \in Int, SustainMs \in Int, ClearBelow \in Int, SamplesInv, SustainInv,
           NEW x \in WindowSample, x.seen = clock, samples' = Append(samples, x),
           sustained' = Win!Sustain(clock, x.value),
           fired' = (sustained.phase = "pending" /\ sustained'.phase = "active")
    PROVE  SustainInv'
<1>1. PICK ss \in Seq(WindowSample), tt \in {samples'} : ss = samples
    BY DEF SamplesInv
<1>2. tt = Append(ss, x) /\ tt = samples'
    BY <1>1
<1>0. PICK n \in Nat : Longer(ss, x, tt, n)
    BY <1>2, OneMore
<1>3. /\ n = Len(ss) /\ DOMAIN ss = 1 .. n
      /\ Len(tt) = n + 1 /\ DOMAIN tt = 1 .. n + 1
      /\ tt[n + 1] = x /\ \A i \in 1 .. n : tt[i] = ss[i]
    BY <1>0 DEF Longer
<1>4. PICK c \in Int, v \in Int : c = clock /\ v = x.value /\ x.seen = c
    BY DEF SamplesInv, WindowSample
<1>5. PICK old, new : old = sustained /\ new = sustained'
    OBVIOUS
<1>6. old \in [phase : {"idle", "pending", "active"}, since : Int]
    BY <1>5 DEF SustainInv
<1>7. /\ old.phase = "idle" /\ v >= Threshold => new = [phase |-> "pending", since |-> c]
      /\ old.phase = "pending" /\ v < Threshold => new = [phase |-> "idle", since |-> Win!None]
      /\ old.phase = "pending" /\ v >= Threshold =>
            \/ new = [phase |-> "active", since |-> Win!None] /\ c - old.since >= SustainMs
            \/ new = old
      /\ old.phase = "active" => new = [phase |-> "idle", since |-> Win!None] \/ new = old
      /\ old.phase = "idle" /\ ~(v >= Threshold) => new = old
    <2>1. new = CASE old.phase = "idle" /\ v >= Threshold -> [phase |-> "pending", since |-> c]
                  [] old.phase = "pending" /\ v < Threshold -> [phase |-> "idle", since |-> Win!None]
                  [] old.phase = "pending" /\ v >= Threshold /\ c - old.since >= SustainMs
                         -> [phase |-> "active", since |-> Win!None]
                  [] old.phase = "active" /\ v < ClearBelow -> [phase |-> "idle", since |-> Win!None]
                  [] OTHER -> old
        BY <1>4, <1>5 DEF Win!Sustain
    <2>2. v < Threshold <=> ~(v >= Threshold)
        BY <1>4
    <2>3. CASE old.phase = "idle"
        BY <2>1, <2>2, <2>3
    <2>4. CASE old.phase = "pending"
        BY <2>1, <2>2, <2>4
    <2>5. CASE old.phase = "active"
        BY <2>1, <2>5
    <2> QED BY <1>6, <2>3, <2>4, <2>5
<1>8. old.since \in Int /\ old.phase \in {"idle", "pending", "active"} /\ Win!None \in Int
    BY <1>6 DEF Win!None
<1>9. new \in [phase : {"idle", "pending", "active"}, since : Int]
    BY <1>4, <1>6, <1>7, <1>8
<1>10. ASSUME old.phase = "pending", v >= Threshold
       PROVE  \E i \in 1 .. n + 1 : tt[i].seen = old.since /\ \A j \in i .. n + 1 : tt[j].value >= Threshold
    <2>1. PICK i \in 1 .. n : ss[i].seen = old.since /\ \A j \in i .. n : ss[j].value >= Threshold
        BY <1>1, <1>3, <1>5, <1>10 DEF SustainInv
    <2>2. ASSUME NEW j \in i .. n + 1 PROVE tt[j].value >= Threshold
        <3>1. CASE j = n + 1
            BY <1>3, <1>4, <1>10, <3>1
        <3>2. CASE j \in i .. n
            <4>1. ss[j].value >= Threshold /\ tt[j] = ss[j]
                BY <1>3, <2>1, <3>2
            <4> QED BY <4>1
        <3>3. j = n + 1 \/ j \in i .. n
            OBVIOUS
        <3> QED BY <3>1, <3>2, <3>3
    <2>3. i \in 1 .. n + 1 /\ tt[i] = ss[i]
        BY <1>3
    <2> QED BY <2>1, <2>2, <2>3
<1>11. ASSUME new.phase = "pending"
       PROVE  \E i \in 1 .. n + 1 : tt[i].seen = new.since /\ \A j \in i .. n + 1 : tt[j].value >= Threshold
    <2>1. CASE old.phase = "pending"
        <3>1. v >= Threshold /\ new = old
            BY <1>4, <1>7, <1>11, <2>1
        <3> QED BY <1>10, <2>1, <3>1
    <2>2. CASE old.phase # "pending"
        <3>1. v >= Threshold /\ new.since = c
            BY <1>7, <1>8, <1>11, <2>2
        <3>2. n + 1 \in 1 .. n + 1 /\ \A j \in n + 1 .. n + 1 : j = n + 1
            OBVIOUS
        <3> QED BY <1>3, <1>4, <3>1, <3>2
    <2> QED BY <2>1, <2>2
<1>12. ASSUME fired'
       PROVE  \E i \in 1 .. n + 1 : /\ tt[n + 1].seen - tt[i].seen >= SustainMs
                                    /\ \A j \in i .. n + 1 : tt[j].value >= Threshold
    <2>1. old.phase = "pending" /\ new.phase = "active"
        BY <1>5, <1>12
    <2>2. v >= Threshold /\ c - old.since >= SustainMs
        BY <1>4, <1>7, <2>1
    <2> QED BY <1>3, <1>4, <1>10, <2>1, <2>2
<1>13. fired' \in BOOLEAN
    BY Zenon
<1>14. sustained' \in [phase : {"idle", "pending", "active"}, since : Int]
    BY <1>5, <1>9
<1>15. Len(samples') = n + 1 /\ DOMAIN samples' = 1 .. n + 1 /\ Last' = tt[n + 1]
    BY <1>2, <1>3 DEF Last
<1>16. sustained'.phase = "pending" =>
          \E i \in DOMAIN samples' : /\ samples'[i].seen = sustained'.since
                                     /\ \A j \in i .. Len(samples') : samples'[j].value >= Threshold
    BY <1>2, <1>5, <1>11, <1>15
<1>17. fired' => \E i \in DOMAIN samples' : /\ Last'.seen - samples'[i].seen >= SustainMs
                                            /\ \A j \in i .. Len(samples') : samples'[j].value >= Threshold
    BY <1>2, <1>12, <1>15
<1> QED BY <1>13, <1>14, <1>16, <1>17 DEF SustainInv

\* The rises before a sample, and that of the sample.
LEMMA RiseGrows ==
    ASSUME NEW ss \in Seq(WindowSample), NEW x \in WindowSample, samples = ss, samples' = Append(ss, x)
    PROVE  /\ Win!TotalRise \in Int /\ Win!TotalRise' \in Int /\ Win!TotalRise <= Win!TotalRise'
           /\ ss = << >> => Win!TotalRise' = 0
           /\ ss # << >> => x.value - ss[Len(ss)].value <= Win!TotalRise' - Win!TotalRise
<1>1. PICK tt : tt = samples' /\ tt = Append(ss, x)
    OBVIOUS
<1>0. PICK n \in Nat : Longer(ss, x, tt, n)
    BY <1>1, OneMore
<1>2. /\ n = Len(ss) /\ DOMAIN ss = 1 .. n
      /\ Len(tt) = n + 1 /\ DOMAIN tt = 1 .. n + 1
      /\ tt[n + 1] = x /\ \A i \in 1 .. n : tt[i] = ss[i]
    BY <1>0 DEF Longer
<1>3. \A i \in 1 .. n + 1 : tt[i].value \in Int
    <2> SUFFICES ASSUME NEW i \in 1 .. n + 1 PROVE tt[i].value \in Int
        OBVIOUS
    <2>1. tt[i] \in WindowSample
        <3>1. i = n + 1 \/ i \in 1 .. n
            OBVIOUS
        <3>2. i \in 1 .. n => ss[i] \in WindowSample
            BY <1>2
        <3> QED BY <1>2, <3>1, <3>2
    <2> QED BY <2>1 DEF WindowSample
<1>4. PICK A, B : /\ A = {i \in 2 .. n : ss[i].value > ss[i - 1].value}
                  /\ B = {i \in 2 .. n + 1 : tt[i].value > tt[i - 1].value}
    OBVIOUS
<1>5. PICK f, g : /\ f = [i \in A |-> ss[i].value - ss[i - 1].value]
                  /\ g = [i \in B |-> tt[i].value - tt[i - 1].value]
    OBVIOUS
<1>6. Win!TotalRise = SumFunctionOnSet(f, A)
    BY <1>2, <1>4, <1>5, WindowsSum DEF Win!TotalRise, Win!RisesOf
<1>7. Win!TotalRise' = SumFunctionOnSet(g, B)
    <2>1. Win!RisesOf' = B
        BY <1>1, <1>2, <1>4 DEF Win!RisesOf
    <2>2. [i \in B |-> samples'[i].value - samples'[i - 1].value] = g
        BY <1>1, <1>5
    <2>3. Win!TotalRise' = Win!SumFunctionOnSet([i \in B |-> samples'[i].value - samples'[i - 1].value], B)
        BY <2>1 DEF Win!TotalRise
    <2> QED BY <2>2, <2>3, WindowsSum
<1>8. \A i \in 2 .. n : i \in 1 .. n /\ i - 1 \in 1 .. n /\ tt[i] = ss[i] /\ tt[i - 1] = ss[i - 1]
    BY <1>2
<1>9. /\ A = B \ {n + 1} /\ n + 1 \notin A /\ A \in SUBSET (1 .. n)
      /\ n + 1 \in B <=> n # 0 /\ tt[n + 1].value > tt[n].value
    <2>1. \A i : i \in 2 .. n <=> i \in 2 .. n + 1 /\ i # n + 1
        OBVIOUS
    <2>2. \A i : i \in A <=> i \in B /\ i # n + 1
        BY <1>4, <1>8, <2>1
    <2>3. n + 1 \in B <=> n # 0 /\ tt[n + 1].value > tt[n].value
        <3>1. n + 1 \in 2 .. n + 1 <=> n # 0
            OBVIOUS
        <3>2. (n + 1) - 1 = n
            OBVIOUS
        <3> QED BY <1>4, <3>1, <3>2
    <2>4. A \in SUBSET (1 .. n)
        BY <1>4, <1>8
    <2> QED BY <2>2, <2>3, <2>4
<1>10. \A i \in A : f[i] \in Int /\ f[i] = g[i]
    <2> SUFFICES ASSUME NEW i \in A PROVE f[i] \in Int /\ f[i] = g[i]
        OBVIOUS
    <2>4. i \in B
        BY <1>9
    <2>5. i \in 2 .. n
        BY <1>4
    <2>1. i \in B /\ i \in 2 .. n /\ i \in 1 .. n + 1 /\ i - 1 \in 1 .. n + 1
        BY <2>4, <2>5
    <2>2. f[i] = ss[i].value - ss[i - 1].value /\ g[i] = tt[i].value - tt[i - 1].value
        BY <1>5, <2>1
    <2>3. tt[i] = ss[i] /\ tt[i - 1] = ss[i - 1]
        BY <1>8, <2>1
    <2> QED BY <1>3, <2>1, <2>2, <2>3
<1>11. Summands(f, A) /\ Summands(g, A)
    <2>1. IsFiniteSet(A)
        BY <1>9, CountTo, FS_Subset
    <2> QED BY <1>10, <2>1 DEF Summands
<1>12. PICK r \in Int : r = SumFunctionOnSet(f, A) /\ r = SumFunctionOnSet(g, A)
    BY <1>10, <1>11, SumAgrees, SumInt
<1>13. CASE n = 0
    <2>1. A = {} /\ B = {}
        BY <1>4, <1>13
    <2>2. ss = << >>
        BY <1>2, <1>13
    <2> QED BY <1>6, <1>7, <2>1, <2>2, SumEmpty
<1>14. CASE n # 0
    <2>1. PICK a \in Int, b \in Int : a = tt[n + 1].value /\ b = tt[n].value /\ a = x.value /\ b = ss[Len(ss)].value
        <3>1. n \in 1 .. n /\ n \in 1 .. n + 1 /\ n + 1 \in 1 .. n + 1
            BY <1>14
        <3> QED BY <1>2, <1>3, <3>1
    <2>2. ss # << >>
        BY <1>2, <1>14
    <2>3. CASE a > b
        <3>1. B = A \cup {n + 1} /\ n + 1 \notin A
            BY <1>9, <1>14, <2>1, <2>3
        <3>2. g[n + 1] = a - b
            <4>1. n + 1 \in B /\ (n + 1) - 1 = n
                BY <3>1
            <4> QED BY <1>5, <2>1, <4>1
        <3>3. g[n + 1] \in Int
            BY <2>1, <3>2
        <3>4. SumFunctionOnSet(g, A \cup {n + 1}) = g[n + 1] + SumFunctionOnSet(g, A)
            BY <1>11, <3>1, <3>3, SumGrows
        <3>5. Win!TotalRise' = (a - b) + r /\ Win!TotalRise = r
            BY <1>6, <1>7, <1>12, <3>1, <3>2, <3>4
        <3> QED BY <2>1, <2>2, <2>3, <3>5
    <2>4. CASE ~(a > b)
        <3>1. B = A
            BY <1>9, <2>1, <2>4
        <3>2. Win!TotalRise' = r /\ Win!TotalRise = r
            BY <1>6, <1>7, <1>12, <3>1
        <3> QED BY <2>1, <2>2, <2>4, <3>2
    <2> QED BY <2>3, <2>4
<1> QED BY <1>13, <1>14

LEMMA RiseIsInt ==
    ASSUME NEW ss \in Seq(WindowSample), samples = ss
    PROVE  Win!TotalRise \in Int
<1>1. PICK n \in Nat : n = Len(ss) /\ DOMAIN ss = 1 .. n
    OBVIOUS
<1>2. PICK A : A = {i \in 2 .. n : ss[i].value > ss[i - 1].value}
    OBVIOUS
<1>3. PICK f : f = [i \in A |-> ss[i].value - ss[i - 1].value]
    OBVIOUS
<1>4. Win!TotalRise = SumFunctionOnSet(f, A)
    BY <1>1, <1>2, <1>3, WindowsSum DEF Win!TotalRise, Win!RisesOf
<1>5. Summands(f, A)
    <2>1. A \in SUBSET (1 .. n)
        BY <1>2
    <2>2. IsFiniteSet(A)
        BY <2>1, CountTo, FS_Subset
    <2>3. ASSUME NEW i \in A PROVE f[i] \in Int
        <3>1. i \in 1 .. n /\ i - 1 \in 1 .. n
            BY <1>2
        <3>2. ss[i] \in WindowSample /\ ss[i - 1] \in WindowSample
            BY <1>1, <3>1
        <3> QED BY <1>3, <3>2 DEF WindowSample
    <2> QED BY <2>2, <2>3 DEF Summands
<1> QED BY <1>4, <1>5, SumInt

\* What is added is no more than the total grows by.
LEMMA StillBelow ==
    ASSUME NEW old \in Int, NEW v \in Int, NEW b \in Int, NEW e \in Int, NEW q \in Int, NEW r \in Int,
           r <= q, v - b <= q - r, b >= e, old + (b - e) <= r
    PROVE  old + v - e <= q /\ old <= q
OBVIOUS

LEMMA SampleKeepsRise ==
    ASSUME MinIncrement \in Int, IncrementMs \in Int, SamplesInv, RiseInv,
           NEW x \in WindowSample, samples' = Append(samples, x),
           anchor' = Win!Reanchor(clock, x.value),
           increments' = IF Win!Rises(clock, x.value) THEN increments + x.value - anchor.value ELSE increments
    PROVE  RiseInv'
<1>1. PICK ss \in Seq(WindowSample) : ss = samples /\ samples' = Append(ss, x)
    BY DEF SamplesInv
<1>2. PICK n \in Nat : n = Len(samples) /\ Len(samples') = n + 1 /\ samples'[n + 1] = x
    BY <1>1
<1>3. PICK c \in Nat, v \in Int : c = clock /\ v = x.value
    BY DEF SamplesInv, WindowSample
<1>4. Last' = x /\ samples' # << >>
    BY <1>2 DEF Last
<1>5. PICK a \in [at : Int, value : Int] : a = anchor
    BY DEF RiseInv
<1>6. PICK r \in Int, q \in Int : r = Win!TotalRise /\ q = Win!TotalRise'
    BY <1>1, RiseGrows
<1>7. /\ r <= q /\ ss = << >> => q = 0
      /\ ss # << >> => v - ss[Len(ss)].value <= q - r
    BY <1>1, <1>3, <1>6, RiseGrows
<1>8. r <= q
    BY <1>1, <1>6, RiseGrows
<1>9. PICK old \in Int : old = increments
    BY DEF RiseInv
<1>10. a.at \in Int /\ a.value \in Int
    OBVIOUS
<1>11. /\ Win!Rises(clock, x.value) => a.at # Win!None
       /\ a.at = Win!None \/ Win!Rises(clock, x.value) => anchor' = [at |-> c, value |-> v]
       /\ anchor' = [at |-> c, value |-> v] \/ (anchor' = a /\ ~(v < a.value))
       /\ increments' = IF Win!Rises(clock, x.value) THEN old + v - a.value ELSE old
    BY <1>3, <1>5, <1>9 DEF Win!Rises, Win!Reanchor
<1>12. PICK new : new = anchor'
    OBVIOUS
<1>13. c # Win!None
    BY DEF Win!None
<1>14. CASE a.at = Win!None
    <2>1. ss = << >> /\ old = 0 /\ q = 0
        BY <1>1, <1>5, <1>7, <1>9, <1>14, <1>1, <1>6, RiseGrows DEF RiseInv
    <2>2. increments' = 0 /\ new = [at |-> c, value |-> v]
        BY <1>11, <1>12, <1>14, <2>1
    <2>3. new.at = c /\ new.value = v /\ new \in [at : Int, value : Int]
        BY <2>2
    <2> QED BY <1>3, <1>4, <1>6, <1>12, <1>13, <2>1, <2>2, <2>3 DEF RiseInv
<1>15. CASE a.at # Win!None
    <2>1. PICK b \in Int : /\ ss # << >> /\ b = ss[Len(ss)].value /\ b >= a.value /\ old + (b - a.value) <= r
        <3>1. ss # << >> /\ Last.value >= a.value /\ old + (Last.value - a.value) <= r
            BY <1>1, <1>5, <1>6, <1>9, <1>15 DEF RiseInv
        <3>2. Last \in WindowSample
            <4>1. Len(ss) \in DOMAIN ss
                BY <3>1
            <4> QED BY <1>1, <4>1 DEF Last
        <3> QED BY <1>1, <3>1, <3>2 DEF Last, WindowSample
    <2>2. v - b <= q - r
        BY <1>1, <1>3, <1>6, <2>1, RiseGrows
    <2>3. old + v - a.value <= q /\ old <= q
        <3>1. PICK e \in Int : e = a.value
            BY <1>10
        <3>2. b >= e /\ old + (b - e) <= r
            BY <2>1, <3>1
        <3>3. old + v - e <= q /\ old <= q
            BY <1>8, <2>2, <3>2, StillBelow
        <3> QED BY <3>1, <3>3
    <2>4. increments' \in Int /\ increments' <= q
        BY <1>10, <1>11, <2>3
    <2>5. CASE new = [at |-> c, value |-> v]
        <3>1. new.at = c /\ new.value = v /\ new \in [at : Int, value : Int]
            BY <2>5
        <3>2. anchor' \in [at : Int, value : Int] /\ anchor'.at # Win!None /\ anchor'.value = v
            BY <1>12, <1>13, <3>1
        <3>3. Last'.value = v /\ Win!TotalRise' = q
            BY <1>3, <1>4, <1>6
        <3>4. Last'.value >= anchor'.value
            BY <3>2, <3>3
        <3>5. increments' + (Last'.value - anchor'.value) <= Win!TotalRise'
            BY <2>4, <3>2, <3>3
        <3>6. anchor'.at = Win!None => samples' = << >> /\ increments' = 0
            BY <3>2
        <3> QED BY <1>4, <2>4, <3>2, <3>4, <3>5, <3>6, Zenon DEF RiseInv
    <2>6. CASE new = a /\ new # [at |-> c, value |-> v]
        <3>1. increments' = old /\ v >= a.value
            BY <1>10, <1>11, <1>12, <2>6
        <3>2. increments' + (v - a.value) <= q
            BY <1>10, <2>3, <3>1
        <3>3. anchor' \in [at : Int, value : Int] /\ anchor'.at # Win!None /\ anchor'.value = a.value
            BY <1>12, <1>15, <2>6
        <3>4. Last'.value = v /\ Win!TotalRise' = q
            BY <1>3, <1>4, <1>6
        <3>5. Last'.value >= anchor'.value
            BY <3>1, <3>3, <3>4
        <3>6. increments' + (Last'.value - anchor'.value) <= Win!TotalRise'
            BY <3>2, <3>3, <3>4
        <3>7. anchor'.at = Win!None => samples' = << >> /\ increments' = 0
            BY <3>3
        <3> QED BY <1>4, <2>4, <3>3, <3>5, <3>6, <3>7, Zenon DEF RiseInv
    <2> QED BY <1>11, <1>12, <2>5, <2>6
<1> QED BY <1>14, <1>15

LEMMA InitWindows == WindowAssumption /\ Win!WindowsInit => WindowInv
<1> SUFFICES ASSUME HopMs \in Nat \ {0}, WindowMs \in Nat, Win!WindowsInit PROVE WindowInv
    BY DEF WindowAssumption
<1> USE DEF Win!WindowsInit
<1>1. SamplesInv
    BY DEF SamplesInv
<1>2. EntriesInv
    <2>1. Holds(entries, samples, clock - WindowMs, << >>)
        BY DEF Holds
    <2> QED BY <2>1 DEF EntriesInv
<1>3. TilesInv
    <2>1. DOMAIN tiles = {} /\ IsFiniteSet({})
        BY FS_EmptySet
    <2>2. \A s : Bucket(samples, s) = {}
        BY DEF Bucket
    <2> QED BY <2>1, <2>2 DEF TilesInv, TileExact
<1>4. SustainInv
    <2>1. sustained = [phase |-> "idle", since |-> Win!None] /\ Win!None \in Int
        BY DEF Win!None
    <2>2. sustained \in [phase : {"idle", "pending", "active"}, since : Int] /\ sustained.phase # "pending"
        BY <2>1
    <2>3. fired = FALSE
        OBVIOUS
    <2>4. fired \in BOOLEAN /\ ~ fired
        BY <2>3, Zenon
    <2> QED BY <2>2, <2>4 DEF SustainInv
<1>5. RiseInv
    BY DEF RiseInv, Win!None
<1> QED BY <1>1, <1>2, <1>3, <1>4, <1>5 DEF WindowInv

LEMMA SampleKeepsWindows ==
    ASSUME WindowAssumption, WindowInv, NEW w \in Values, NEW lag \in 0 .. MaxLag, Win!Sample(w, lag)
    PROVE  WindowInv'
<1>1. w \in Int /\ lag \in Nat
    BY DEF WindowAssumption
<1>2. /\ lag <= clock /\ clock' = clock
      /\ samples' = Append(samples, [at |-> clock - lag, value |-> w, seen |-> clock])
      /\ entries' = Win!RetainEntries(<<[at |-> clock - lag, value |-> w]>> \o entries, clock - lag)
      /\ tiles' = Win!RetainTiles(Win!AddToTile(tiles, clock - lag, w), clock - lag)
      /\ sustained' = Win!Sustain(clock, w)
      /\ fired' = (sustained.phase = "pending" /\ sustained'.phase = "active")
      /\ anchor' = Win!Reanchor(clock, w)
      /\ increments' = IF Win!Rises(clock, w) THEN increments + w - anchor.value ELSE increments
    BY DEF Win!Sample
<1>3. SamplesInv' /\ EntriesInv'
    BY <1>1, <1>2, SampleKeepsEntries DEF WindowInv, WindowAssumption
<1>4. TilesInv'
    BY <1>1, <1>2, SampleKeepsTiles DEF WindowInv, WindowAssumption
<1>5. PICK x : x = [at |-> clock - lag, value |-> w, seen |-> clock]
    OBVIOUS
<1>6. x \in WindowSample /\ x.value = w /\ x.seen = clock
    BY <1>1, <1>2, <1>5 DEF WindowInv, SamplesInv, WindowSample
<1>7. SustainInv'
    BY <1>2, <1>5, <1>6, SampleKeepsSustained DEF WindowInv, WindowAssumption
<1>8. RiseInv'
    BY <1>2, <1>5, <1>6, SampleKeepsRise DEF WindowInv, WindowAssumption
<1> QED BY <1>3, <1>4, <1>7, <1>8 DEF WindowInv

\* Time passes: less is asked of the entries and the tiles.
LEMMA TickKeepsWindows ==
    ASSUME WindowAssumption, WindowInv, Win!Tick
    PROVE  WindowInv'
<1>1. clock' = clock + 1 /\ fired' = FALSE /\ UNCHANGED <<samples, entries, tiles, sustained, anchor, increments>>
    BY DEF Win!Tick
<1>2. clock \in Nat /\ WindowMs \in Nat /\ HopMs \in Nat
    BY DEF WindowInv, SamplesInv, WindowAssumption
<1>3. ASSUME NEW i \in DOMAIN samples PROVE samples[i].at \in Int /\ samples[i].at <= clock
    <2>1. samples[i] \in WindowSample
        BY DEF WindowInv, SamplesInv
    <2> QED BY <2>1 DEF WindowInv, SamplesInv, WindowSample
<1>4. SamplesInv'
    BY <1>1, <1>2, <1>3 DEF WindowInv, SamplesInv
<1>5. EntriesInv'
    <2>1. PICK g : Holds(entries, samples, clock - WindowMs, g)
        BY DEF WindowInv, EntriesInv
    <2>2. \A i \in DOMAIN samples : samples[i].at >= (clock + 1) - WindowMs => samples[i].at >= clock - WindowMs
        BY <1>2, <1>3
    <2>3. Holds(entries, samples, (clock + 1) - WindowMs, g)
        BY <2>1, <2>2 DEF Holds
    <2> QED BY <1>1, <2>3 DEF WindowInv, EntriesInv
<1>6. TilesInv'
    <2>1. \A s \in Nat : s + HopMs > (clock + 1) - WindowMs => s + HopMs > clock - WindowMs
        BY <1>2
    <2>2. \A s \in Nat : s + HopMs > clock - WindowMs => TileExact(tiles, samples, s)
        BY DEF WindowInv, TilesInv
    <2>3. \A s \in Nat : s + HopMs > (clock + 1) - WindowMs => TileExact(tiles, samples, s)
        BY <2>1, <2>2
    <2> QED BY <1>1, <2>3 DEF WindowInv, TilesInv
<1>7. SustainInv'
    BY <1>1 DEF WindowInv, SustainInv, Last
<1>8. RiseInv'
    <2>1. Win!TotalRise' = Win!TotalRise
        BY <1>1 DEF Win!TotalRise, Win!RisesOf
    <2> QED BY <1>1, <2>1 DEF WindowInv, RiseInv, Last
<1> QED BY <1>4, <1>5, <1>6, <1>7, <1>8 DEF WindowInv

LEMMA StepKeepsWindows == WindowAssumption /\ WindowInv /\ [Win!WindowsNext]_windowState => WindowInv'
<1> SUFFICES ASSUME WindowAssumption, WindowInv, [Win!WindowsNext]_windowState PROVE WindowInv'
    OBVIOUS
<1>1. CASE UNCHANGED windowState
    <2>1. Win!TotalRise' = Win!TotalRise
        BY <1>1 DEF Win!TotalRise, Win!RisesOf, windowState
    <2>2. SamplesInv' /\ EntriesInv' /\ TilesInv'
        BY <1>1 DEF WindowInv, SamplesInv, EntriesInv, TilesInv, windowState
    <2>3. SustainInv' /\ RiseInv'
        BY <1>1, <2>1 DEF WindowInv, SustainInv, RiseInv, Last, windowState
    <2> QED BY <2>2, <2>3 DEF WindowInv
<1>2. CASE \E w \in Values, lag \in 0 .. MaxLag : Win!Sample(w, lag)
    BY <1>2, SampleKeepsWindows
<1>3. CASE Win!Tick
    BY <1>3, TickKeepsWindows
<1> QED BY <1>1, <1>2, <1>3 DEF Win!WindowsNext

LEMMA WindowsAreExact == WindowAssumption /\ WindowInv => Win!WindowIsExact /\ Win!DetectorsAreSound
<1> SUFFICES ASSUME WindowAssumption, WindowInv PROVE Win!WindowIsExact /\ Win!DetectorsAreSound
    OBVIOUS
<1>1. Win!WindowIsExact
    <2>1. WindowMs \in Nat /\ HopMs \in Nat \ {0} /\ SamplesInv /\ EntriesInv /\ TilesInv
        BY DEF WindowInv, WindowAssumption
    <2>2. Len(Win!ReadEntries) = Win!Cardinality(Win!Inside(WindowMs))
        BY <2>1, EntriesAreExact, WindowsSum
    <2>3. PICK covered \in SUBSET Win!Inside(WindowMs + HopMs - 1) :
              /\ Win!Inside(WindowMs) \subseteq covered
              /\ Win!Total("count") = Cardinality(covered) /\ Win!Total("sum") = Win!SumOf(covered)
        BY <2>1, TilesAreExact
    <2>4. Win!Total("count") = Win!Cardinality(covered)
        BY <2>3, WindowsSum
    <2> QED BY <2>1, <2>2, <2>3, <2>4, EntriesAreExact DEF Win!WindowIsExact
<1>2. increments <= Win!TotalRise
    <2>1. PICK ss \in Seq(WindowSample) : ss = samples
        BY DEF WindowInv, SamplesInv
    <2>2. CASE anchor.at = Win!None
        <3>1. ss = << >> /\ increments = 0
            BY <2>1, <2>2 DEF WindowInv, RiseInv
        <3>2. Win!RisesOf = {}
            BY <2>1, <3>1 DEF Win!RisesOf
        <3>3. Win!TotalRise = 0
            BY <3>2, WindowsSum, SumEmpty DEF Win!TotalRise
        <3> QED BY <3>1, <3>3
    <2>3. CASE anchor.at # Win!None
        <3>1. /\ ss # << >> /\ Last.value >= anchor.value /\ increments \in Int /\ anchor.value \in Int
              /\ increments + (Last.value - anchor.value) <= Win!TotalRise
            BY <2>1, <2>3 DEF WindowInv, RiseInv
        <3>2. Last.value \in Int
            <4>1. Len(ss) \in DOMAIN ss
                BY <3>1
            <4>2. ss[Len(ss)] \in WindowSample
                BY <4>1
            <4> QED BY <2>1, <4>2 DEF Last, WindowSample
        <3>3. Win!TotalRise \in Int
            BY <2>1, RiseIsInt
        <3> QED BY <3>1, <3>2, <3>3
    <2> QED BY <2>2, <2>3
<1>3. Win!DetectorsAreSound
    BY <1>2 DEF Win!DetectorsAreSound, WindowInv, SustainInv, Last
<1> QED BY <1>1, <1>3

\* Windows hold what they promise however late events are recorded, and the detectors report
\* nothing the samples do not justify (core/window.ts, ha/detectors.ts).
THEOREM WindowsAreSound == Spec => []WindowsSound
<1>1. Init => WindowInv
    BY WindowAssumption, InitWindows DEF Init
<1>2. WindowInv /\ [Next]_vars => WindowInv'
    BY WindowAssumption, ComponentSteps, StepKeepsWindows
<1>3. WindowInv => WindowsSound
    BY WindowAssumption, WindowsAreExact DEF WindowsSound
<1> QED BY <1>1, <1>2, <1>3, PTL DEF Spec

===============================================================================
