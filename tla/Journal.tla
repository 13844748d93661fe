------------------------------ MODULE Journal ------------------------------
(***************************************************************************)
(* The synchronous event journal of one entity (src/src/inmem/journal.ts,  *)
(* and src/src/sqlite/journal.ts, which stores the same rows under the     *)
(* primary key (category, entity, sequence_nr)).                           *)
(*                                                                         *)
(* The rows of one entity are a function from the sequence numbers that    *)
(* are taken to the event stored there.  Nothing in the journal forbids a  *)
(* hole in that domain: only the runners that write it keep it contiguous. *)
(* While the domain is 1..n the rows are a sequence.                       *)
(***************************************************************************)
EXTENDS Integers, Sequences, FiniteSets

NoRows == << >>

\* The sequence numbers a batch of k events written after `start` takes.
BatchSlots(start, k) == (start + 1) .. (start + k)

\* Seeded fault: the journal takes a batch without looking for its numbers.
BugNoDuplicateCheck(rows, start, k) == FALSE

\* persistEvents refuses the whole batch when one of its numbers is taken.
IsDuplicate(rows, start, k) == BatchSlots(start, k) \cap DOMAIN rows # {}

\* The rows after k copies of event ev were written after `start`.
PersistRows(rows, start, k, ev) ==
    [s \in DOMAIN rows \cup BatchSlots(start, k) |->
        IF s \in BatchSlots(start, k) THEN ev ELSE rows[s]]

\* The sequence numbers loadEvents(from) returns.
RowsAfter(rows, from) == {s \in DOMAIN rows : s > from}

\* loadEvents: the events stored after `from`, in sequence-number order.
LoadEvents(rows, from) ==
    [i \in 1 .. Cardinality(RowsAfter(rows, from)) |->
        rows[CHOOSE s \in RowsAfter(rows, from) :
                Cardinality({t \in RowsAfter(rows, from) : t <= s}) = i]]

\* The highest number loadEvents(from) returns, `from` when there is none.
LastSequenceNr(rows, from) ==
    IF RowsAfter(rows, from) = {} THEN from
    ELSE CHOOSE s \in RowsAfter(rows, from) : \A t \in RowsAfter(rows, from) : t <= s
=============================================================================
