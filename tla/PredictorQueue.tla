---------------------------- MODULE PredictorQueue ----------------------------
(***************************************************************************)
(* What the predictor of the adaptive array of Bender and Hu promises      *)
(* (pma/adaptive/bh07_v2/predictor.hpp): a queue of a limited length, from *)
(* its tail to its front, of the segments where elements were inserted     *)
(* lately, each with a count.                                              *)
(***************************************************************************)
EXTENDS Integers, SequencesExt, FiniteSetsExt

CONSTANTS
    Pointers,      \* the segments that may be recorded
    Sizes,         \* the capacities that may be asked for
    Counts         \* the maxima of a count that may be asked for

VARIABLES queue, capacity, count_max

vars == <<queue, capacity, count_max>>

\* The element at the tail loses one of its count, and is removed with the last one.
DecreaseTail(q) ==
    IF q[1].m_count = 1 THEN Tail(q) ELSE [q EXCEPT ![1].m_count = @ - 1]

\* "Move the given item in the queue ahead of one position, if it's not already in the front".
MoveAhead(q, i) == IF i = Len(q) THEN q ELSE [q EXCEPT ![i] = q[i + 1], ![i + 1] = q[i]]

\* update: a segment that is known moves ahead and counts one more, or the tail one less.
Updated(q, limit, max, pointer) ==
    LET known == {i \in DOMAIN q : q[i].m_pointer = pointer}
        i == Max(known)
        at == IF i = Len(q) THEN i ELSE i + 1
        ahead == MoveAhead(q, i)
    IN  IF known = {}
        THEN IF Len(q) = limit THEN DecreaseTail(q)
             ELSE Append(q, [m_pointer |-> pointer, m_count |-> 1])
        ELSE IF q[i].m_count < max THEN [ahead EXCEPT ![at].m_count = @ + 1]
        ELSE DecreaseTail(ahead)

\* The segments are going to be twice as many.
Doubled(q) == [i \in DOMAIN q |-> [q[i] EXCEPT !.m_pointer = 2 * @]]

Init == queue = <<>> /\ capacity \in Sizes /\ count_max \in Counts

Update(pointer) ==
    /\ queue' = Updated(queue, capacity, count_max, pointer)
    /\ UNCHANGED <<capacity, count_max>>

\* "Alter the capacity of the underlying circular buffer", which keeps what it holds.
Resize(size) ==
    /\ capacity' = size
    /\ size >= Len(queue)
    /\ UNCHANGED <<queue, count_max>>

SetMaxCount(max) == count_max' = max /\ UNCHANGED <<queue, capacity>>

Double == queue' = Doubled(queue) /\ UNCHANGED <<capacity, count_max>>

Next ==
    \/ \E pointer \in Pointers : Update(pointer)
    \/ \E size \in Sizes : Resize(size)
    \/ \E max \in Counts : SetMaxCount(max)
    \/ Double

Spec == Init /\ [][Next]_vars
=============================================================================
