------------------------ MODULE BulkSpreadWithRewiring ------------------------
(***************************************************************************)
(* The classes SpreadWithRewiring and SpreadWithRewiringBulkLoading of     *)
(* pma/btree/btreepmacc7.cpp at the level of slots: the elements of a      *)
(* window of extents shared out evenly, from right to left, by themselves  *)
(* ("spread") or merged with a sorted sequence of the user ("load").       *)
(*                                                                         *)
(* The output of an extent that may still hold input goes to a buffer of   *)
(* BufferedRewiredMemory, which is swapped with the extent once the input  *)
(* has moved past it.  Positions are relative to the window and an element *)
(* is its key: the values move with it, by the same offsets.               *)
(***************************************************************************)
EXTENDS Integers, SequencesExt

CONSTANTS
    SegmentCapacity,     \* m_segment_capacity
    SegmentsPerExtent,   \* m_segments_per_extent
    Calls                \* [op, length, sizes, batch]: the arguments; sizes is for the
                         \* segments with input, which are fewer after the array was extended

BulkSpreadAssumption ==
    /\ SegmentCapacity \in Nat \ {0} /\ SegmentsPerExtent \in Nat \ {0}
    /\ SegmentsPerExtent % 2 = 0
    /\ \A c \in Calls : c.length % SegmentsPerExtent = 0     \* the assertions of spread_window

VARIABLES
    call,                \* what the caller asked for; never changes
    keys,                \* m_storage.m_keys: slot -> key
    sizes,               \* m_segment_sizes
    position,            \* m_position: one past the next slot to read
    sequence,            \* m_position_user_sequence + 1: the elements of the user left
    m_extents_to_rewire, \* queue of [extent, buffer]
    pc,                  \* "extent", "pair", "copy", "reclaim", "finish", "done" or "crashed"
    extent,              \* loop variable of spread_window
    pair,                \* output_segment_id, the first of a pair of segments of the extent
    k                    \* the elements the pair still needs

vars == <<call, keys, sizes, position, sequence, m_extents_to_rewire, pc, extent, pair, k>>

ExtentSlots == SegmentsPerExtent * SegmentCapacity

Stale == 0

Depleted == -1           \* the value of m_position_pma after the last element

\* The sizes with n elements shared out over so many parts.
Shares(parts, n) == [i \in 0 .. (parts - 1) |-> n \div parts + IF i < n % parts THEN 1 ELSE 0]

Input(c) == FoldLeft(LAMBDA n, s : n + s, 0, [i \in 1 .. Len(c.sizes) |-> c.sizes[i]])

m_cardinality == Input(call) + Len(call.batch)

NumExtents == call.length \div SegmentsPerExtent

\* spread_window: elements_per_extent + (i < odd_extents).
ExtentSizes == Shares(NumExtents, m_cardinality)

\* update_segment_sizes: first over the extents, then over the segments of each.
NewSizes ==
    LET shares == Shares(NumExtents, m_cardinality)
    IN  [s \in 0 .. (call.length - 1) |->
            Shares(SegmentsPerExtent, shares[s \div SegmentsPerExtent])[s % SegmentsPerExtent]]

\* The first slot of the elements of a pair of segments, and one past the last.
RunStart(size, s) == (s + 1) * SegmentCapacity - size[s]
RunEnd(size, s) == (s + 1) * SegmentCapacity + size[s + 1]

\* Before the call: the i-th element of the window has the key 2 * i.
InitialSizes(c) == [s \in 0 .. (c.length - 1) |-> IF s < Len(c.sizes) THEN c.sizes[s + 1] ELSE 0]
SegmentOf(p) == p \div SegmentCapacity
InitialKeys(c) ==
    LET size == InitialSizes(c)
        Before(s) == FoldLeft(LAMBDA n, i : n + i, 0, SubSeq(c.sizes, 1, s))
        Start(s) == s * SegmentCapacity + IF s % 2 = 0 THEN SegmentCapacity - size[s] ELSE 0
    IN  [p \in 0 .. (c.length * SegmentCapacity - 1) |->
            LET s == SegmentOf(p)
            IN  IF p \in Start(s) .. (Start(s) + size[s] - 1) THEN 2 * (Before(s) + p - Start(s) + 1)
                ELSE Stale]

\* The constructor, and set_start_position when the array was extended.
Init ==
    /\ call \in Calls
    /\ keys = InitialKeys(call)
    /\ sizes = InitialSizes(call)
    /\ position = (Len(call.sizes) - 1) * SegmentCapacity + call.sizes[Len(call.sizes)]
    /\ sequence = Len(call.batch)
    /\ m_extents_to_rewire = <<>>
    /\ pc = "extent" /\ extent = NumExtents - 1 /\ pair = 0 /\ k = 0

\* get_current_extent: \div rounds down, as floor does.
get_current_extent == (position - 1) \div ExtentSlots

\* Mutant: the extent that is being read is written in place.
UseRewiringLess == get_current_extent > extent

use_rewiring == get_current_extent >= extent

\* The start of spread_elements computes the pair of the position with unsigned numbers:
\* when the input of a load is depleted it is past all memory, and the size is read there.
spread_extent ==
    /\ pc = "extent"
    /\ pc' = IF call.op = "load" /\ position = Depleted THEN "crashed" ELSE "pair"
    /\ m_extents_to_rewire' =
          IF use_rewiring
          THEN Append(m_extents_to_rewire,
                      [extent |-> extent, buffer |-> [p \in 0 .. (ExtentSlots - 1) |-> Stale]])
          ELSE m_extents_to_rewire
    /\ pair' = SegmentsPerExtent - 2
    /\ UNCHANGED <<call, keys, sizes, position, sequence, extent, k>>

\* The segments of the extent, by pairs, from the last one.
output_sizes == Shares(SegmentsPerExtent, ExtentSizes[extent])

NextPair ==
    /\ pc = "pair"
    /\ pc' = IF pair < 0 THEN "reclaim" ELSE "copy"
    /\ k' = IF pair < 0 THEN 0 ELSE output_sizes[pair] + output_sizes[pair + 1]
    /\ UNCHANGED <<call, keys, sizes, position, sequence, m_extents_to_rewire, extent, pair>>

\* Where the next element goes: into the buffer of the extent, or in place.
Write(key) ==
    LET slot == (pair + 1) * SegmentCapacity - output_sizes[pair] + k - 1
        last == Len(m_extents_to_rewire)
    IN  IF last > 0 /\ m_extents_to_rewire[last].extent = extent
        THEN /\ m_extents_to_rewire' = [m_extents_to_rewire EXCEPT ![last].buffer[slot] = key]
             /\ UNCHANGED keys
        ELSE keys' = [keys EXCEPT ![extent * ExtentSlots + slot] = key] /\ UNCHANGED m_extents_to_rewire

\* The input left of the position: in the same pair of segments, else the end of the pair
\* before, else none.
Preceding ==
    LET run == 2 * (SegmentOf(position - 1) \div 2)
    IN  IF position - 1 > RunStart(sizes, run) THEN position - 1
        ELSE IF run > 0 THEN RunEnd(sizes, run - 2)
        ELSE IF call.op = "load" THEN Depleted ELSE 0

HasInput == position > 0

\* The next element of the window: when the user has none left, or a smaller one.
CopyFromWindow ==
    /\ pc = "copy" /\ k > 0
    /\ HasInput
    /\ sequence > 0 => keys[position - 1] > call.batch[sequence]
    /\ Write(keys[position - 1])
    /\ position' = Preceding
    /\ k' = k - 1
    /\ UNCHANGED <<call, sizes, sequence, pc, extent, pair>>

CopyFromSequence ==
    /\ pc = "copy" /\ k > 0
    /\ sequence > 0
    /\ HasInput => keys[position - 1] <= call.batch[sequence]
    /\ Write(call.batch[sequence])
    /\ sequence' = sequence - 1
    /\ k' = k - 1
    /\ UNCHANGED <<call, sizes, position, pc, extent, pair>>

PairFilled ==
    /\ pc = "copy" /\ k = 0
    /\ pc' = "pair" /\ pair' = pair - 2
    /\ UNCHANGED <<call, keys, sizes, position, sequence, m_extents_to_rewire, extent, k>>

\* reclaim_past_extents: swap the buffers of the extents that have been read; then the next
\* extent of spread_window.
reclaim_past_extents ==
    LET head == Head(m_extents_to_rewire)
    IN  /\ pc = "reclaim"
        /\ IF m_extents_to_rewire # <<>> /\ head.extent > get_current_extent
           THEN /\ keys' = [p \in DOMAIN keys |->
                               IF p \div ExtentSlots = head.extent
                               THEN head.buffer[p % ExtentSlots] ELSE keys[p]]
                /\ m_extents_to_rewire' = Tail(m_extents_to_rewire)
                /\ UNCHANGED <<pc, extent>>
           ELSE /\ pc' = IF extent = 0 THEN "finish" ELSE "extent"
                /\ extent' = IF extent = 0 THEN 0 ELSE extent - 1
                /\ UNCHANGED <<keys, m_extents_to_rewire>>
        /\ UNCHANGED <<call, sizes, position, sequence, pair, k>>

\* update_segment_sizes
update_segment_sizes ==
    /\ pc = "finish"
    /\ sizes' = NewSizes
    /\ pc' = "done"
    /\ UNCHANGED <<call, keys, position, sequence, m_extents_to_rewire, extent, pair, k>>

Stopped == pc \in {"done", "crashed"} /\ UNCHANGED vars

Next ==
    \/ spread_extent \/ NextPair \/ CopyFromWindow \/ CopyFromSequence \/ PairFilled
    \/ reclaim_past_extents \/ update_segment_sizes \/ Stopped

Spec == Init /\ [][Next]_vars

-----------------------------------------------------------------------------
\* The keys in the segments, in order.
Stored ==
    FlattenSeq([i \in 1 .. (call.length \div 2) |->
        LET s == 2 * (i - 1)
        IN  [j \in 1 .. (RunEnd(sizes, s) - RunStart(sizes, s)) |-> keys[RunStart(sizes, s) + j - 1]]])

Expected == SortSeq([i \in 1 .. Input(call) |-> 2 * i] \o call.batch, <)

\* When the spread has ended, the segments hold the elements of the window and of the user,
\* sorted, although the output was written over the input; and every buffer was released, as
\* spread_window asserts.
SpreadCorrect == pc = "done" => Stored = Expected /\ m_extents_to_rewire = <<>>

\* No memory but the array's is read, whatever the user loads.
NoWildRead == pc # "crashed"
=============================================================================
