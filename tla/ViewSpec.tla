------------------------------ MODULE ViewSpec ------------------------------
(***************************************************************************)
(* What a projection promises of its view documents, whatever runs it: a   *)
(* view is the fold of events of its sources, each source's events in the  *)
(* order of their numbers, none twice, and the offset kept for a source is *)
(* the number of the last of its events in the view.  A step either leaves *)
(* what was folded in place and folds more, or is a rebuild from nothing;  *)
(* one that was cut short leaves offsets that promise too much, until the  *)
(* next.                                                                   *)
(***************************************************************************)
EXTENDS Integers, Sequences

CONSTANTS Sources, Views, ViewOf(_)

VARIABLES folded,   \* [view -> sequence of [src, nr] folded into it]
          last,     \* [source -> last sequence number processed]
          cut,      \* the last rebuild was cut short before the offsets were cleared
          era       \* rebuilds so far

\* Where the events of source s are in its view.
Places(s) == {i \in 1 .. Len(folded[ViewOf(s)]) : folded[ViewOf(s)][i].src = s}

\* A source's events are in the order of their numbers, none above its offset.
InOrder(s) ==
    LET q == folded[ViewOf(s)] IN
    /\ \A i, j \in Places(s) : i < j => q[i].nr < q[j].nr
    /\ \A i \in Places(s) : q[i].nr <= last[s]

\* The offset is the number of an event in the view.
Kept(s) == last[s] = 0 \/ \E i \in Places(s) : folded[ViewOf(s)][i].nr = last[s]

Legit == \A s \in Sources : InOrder(s) /\ (cut \/ Kept(s))

Empty == /\ folded = [v \in Views |-> << >>]
         /\ last = [s \in Sources |-> 0]
         /\ cut = FALSE
         /\ era = 0

Extends(q, p) == Len(q) >= Len(p) /\ SubSeq(q, 1, Len(p)) = p

\* Events are folded into what is there.
FoldMore ==
    /\ Legit'
    /\ \A v \in Views : Extends(folded'[v], folded[v])
    /\ UNCHANGED <<cut, era>>

\* The views are emptied, to be folded again from the first event.
Rebuild == folded' = [v \in Views |-> << >>] /\ Legit' /\ era' = era + 1

Spec == Empty /\ [][FoldMore \/ Rebuild]_<<folded, last, cut, era>>
=============================================================================
