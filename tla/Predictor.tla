------------------------------- MODULE Predictor -------------------------------
(***************************************************************************)
(* class Predictor (pma/adaptive/bh07_v2/predictor.cpp): the queue of      *)
(* PredictorQueue in a circular array, which is resized in place while the *)
(* buffer below it is large enough.                                        *)
(*                                                                         *)
(* An item whose count is 0 is NoItem: what pointer it has is never read.  *)
(***************************************************************************)
EXTENDS Integers, SequencesExt, FiniteSetsExt

CONSTANTS Pointers, Sizes, Counts    \* as in PredictorQueue

VARIABLES m_buffer, m_capacity, m_capacity_max, m_tail, m_head, m_count_max, m_empty

vars == <<m_buffer, m_capacity, m_capacity_max, m_tail, m_head, m_count_max, m_empty>>

NoItem == [m_pointer |-> 0, m_count |-> 0]

hyperceil(n) == Min({c \in {2 ^ i : i \in 0 .. n} : c >= n})

\* The sizes are such that the next power of two does not overflow.
PredictorAssumption ==
    /\ Pointers \subseteq Nat /\ IsFiniteSet(Pointers)
    /\ Sizes \subseteq Nat \ {0, 1} /\ \A size \in Sizes : hyperceil(size) \in Nat /\ hyperceil(size) >= size
    /\ Counts \subseteq 1 .. (2 ^ 16 - 1)

allocate_buffer(capacity) == [i \in 0 .. (capacity - 1) |-> NoItem]

Init ==
    \E size \in Sizes :
        /\ m_capacity = size /\ m_capacity_max = hyperceil(size)
        /\ m_buffer = allocate_buffer(hyperceil(size))
        /\ m_tail = 0 /\ m_head = 0 /\ m_empty = TRUE
        /\ m_count_max \in Counts

full == ~ m_empty /\ m_tail = m_head

size_ == IF m_empty THEN 0 ELSE IF m_head > m_tail THEN m_head - m_tail ELSE (m_capacity - m_tail) + m_head

\* The positions in use, from the tail to the front.
InUse ==
    IF m_empty THEN <<>>
    ELSE IF m_head > m_tail THEN [i \in 1 .. (m_head - m_tail) |-> m_tail + i - 1]
    ELSE [i \in 1 .. (m_capacity - m_tail) |-> m_tail + i - 1] \o [i \in 1 .. m_head |-> i - 1]

\* weighted_elements and items, before they are sorted: the positions of the items in range.
items(min, max) ==
    {j \in Range(InUse) : min <= m_buffer[j].m_pointer /\ m_buffer[j].m_pointer <= max}

\* The one closest to the front, or -1.
get_position(pointer) ==
    LET i == SelectLastInSeq(InUse, LAMBDA j : m_buffer[j].m_pointer = pointer)
    IN  IF i = 0 THEN -1 ELSE InUse[i]

\* A position moved ahead, and back to the start of the array.
Following(position) == IF position + 1 = m_capacity THEN 0 ELSE position + 1

\* decrease_tail, of a buffer in which an item may have been moved.
decrease_tail(buffer) ==
    LET item == buffer[m_tail]
    IN  /\ m_buffer' = [buffer EXCEPT ![m_tail] = IF item.m_count = 1 THEN NoItem ELSE [item EXCEPT !.m_count = @ - 1]]
        /\ m_tail' = IF item.m_count = 1 THEN Following(m_tail) ELSE m_tail
        /\ m_empty' = (item.m_count = 1 /\ Following(m_tail) = m_head)
        /\ UNCHANGED m_head

\* move_ahead: the buffer, and the position of the item in it.
move_ahead(position) ==
    LET front == IF m_head = 0 THEN m_capacity - 1 ELSE m_head - 1
        next == Following(position)
    IN  IF position = front THEN [buffer |-> m_buffer, position |-> position]
        ELSE [buffer |-> [m_buffer EXCEPT ![position] = m_buffer[next], ![next] = m_buffer[position]],
              position |-> next]

insert_new_element(pointer) ==
    /\ m_buffer' = [m_buffer EXCEPT ![m_head] = [m_pointer |-> pointer, m_count |-> 1]]
    /\ m_head' = Following(m_head)
    /\ m_empty' = FALSE
    /\ UNCHANGED m_tail

update(pointer) ==
    LET position == get_position(pointer)
        moved == move_ahead(position)
    IN  /\ IF position # -1
           THEN IF moved.buffer[moved.position].m_count < m_count_max
                THEN /\ m_buffer' = [moved.buffer EXCEPT ![moved.position].m_count = @ + 1]
                     /\ UNCHANGED <<m_tail, m_head, m_empty>>
                ELSE decrease_tail(moved.buffer)
           ELSE IF full THEN decrease_tail(m_buffer)
           ELSE insert_new_element(pointer)
        /\ UNCHANGED <<m_capacity, m_capacity_max, m_count_max>>

set_max_count(value) ==
    /\ m_count_max' = value
    /\ UNCHANGED <<m_buffer, m_capacity, m_capacity_max, m_tail, m_head, m_empty>>

\* reset_ptr of every item, before the array is doubled.
reset_ptr(max) ==
    /\ \A j \in Range(InUse) : 2 * m_buffer[j].m_pointer \in Pointers
    /\ m_buffer' = [j \in DOMAIN m_buffer |->
                       IF j \in items(0, max) THEN [m_buffer[j] EXCEPT !.m_pointer = 2 * @]
                       ELSE m_buffer[j]]
    /\ UNCHANGED <<m_capacity, m_capacity_max, m_tail, m_head, m_count_max, m_empty>>

\* resize_with_new_buffer: the items in a row from the start of it.
resize_with_new_buffer(sz) ==
    /\ m_capacity_max' = hyperceil(sz)
    /\ m_buffer' = [j \in 0 .. (hyperceil(sz) - 1) |->
                       IF j < Len(InUse) THEN m_buffer[InUse[j + 1]] ELSE NoItem]
    /\ m_tail' = 0
    /\ m_head' = Len(InUse)

\* resize in place of items that wrap around: as many of those at the start of the array
\* as there is room for go behind its former end, the others move to the start.
Unwrapped(sz) ==
    LET end == Min({sz, m_capacity + m_head})
        copied == end - m_capacity
        leftover == m_head - copied
    IN  /\ m_buffer' = [j \in DOMAIN m_buffer |->
                           IF j >= m_capacity /\ j < end THEN m_buffer[j - m_capacity]
                           ELSE IF j < leftover THEN m_buffer[copied + j]
                           ELSE IF j < m_head THEN NoItem ELSE m_buffer[j]]
        /\ m_head' = IF leftover = 0 THEN end % sz ELSE leftover
        /\ UNCHANGED m_tail

\* Mutant: a full array resized in place is taken for one that does not wrap around.
ResizeInPlace(sz) ==
    /\ m_capacity' = sz
    /\ m_head' = IF m_head = 0 THEN m_capacity ELSE m_head
    /\ UNCHANGED <<m_buffer, m_capacity_max, m_tail>>

Resized(sz) ==
    /\ m_capacity' = sz
    /\ IF m_empty THEN UNCHANGED <<m_buffer, m_capacity_max, m_tail, m_head>>
       ELSE IF sz < m_capacity \/ sz > m_capacity_max THEN resize_with_new_buffer(sz)
       ELSE /\ UNCHANGED m_capacity_max
            /\ IF m_tail < m_head THEN UNCHANGED <<m_buffer, m_tail, m_head>>
               ELSE IF m_head = 0 THEN m_head' = m_capacity /\ UNCHANGED <<m_buffer, m_tail>>
               ELSE Unwrapped(sz)

\* resize: refused for a size that the items do not fit.
resize(sz) ==
    /\ IF sz = m_capacity \/ sz < size_ THEN UNCHANGED <<m_buffer, m_capacity, m_capacity_max, m_tail, m_head>>
       ELSE Resized(sz)
    /\ UNCHANGED <<m_count_max, m_empty>>

Next ==
    \/ \E pointer \in Pointers : update(pointer)
    \/ \E sz \in Sizes : resize(sz)
    \/ \E value \in Counts : set_max_count(value)
    \/ reset_ptr(Max(Pointers))

Spec == Init /\ [][Next]_vars

-----------------------------------------------------------------------------
\* m_capacity_max is the "capacity of the underlying buffer containing the circular array",
\* and the head is an "Index" of the array: the array lies in its buffer, the head in it.
Contained == m_capacity <= m_capacity_max /\ m_head < m_capacity

Queue == INSTANCE PredictorQueue WITH
             queue <- [i \in DOMAIN InUse |-> m_buffer[InUse[i]]],
             capacity <- m_capacity, count_max <- m_count_max

\* As long as the array lies in its buffer, it is the queue that predictor.hpp describes:
\* an item moves ahead and the tail loses its count across the end of the array, and a
\* resize, in place or not, keeps all the items in their order.
ImplementsQueue == Queue!Spec
=============================================================================
