---------------------- MODULE AdaptiveSpreadWithRewiring ----------------------
(***************************************************************************)
(* class SpreadWithRewiring of pma/adaptive/int3: the spread of a window   *)
(* of extents from right to left, in the sizes that the partitions give,   *)
(* with the new element merged in on the way.  The methods that are those  *)
(* of int2 when it moves backwards are the operators of SpreadWithRewiring.*)
(*                                                                         *)
(* m_insert is TRUE as long as m_insert_segment is not NotSet.  The input  *)
(* of a spread that makes the array larger ends before the window does,    *)
(* and that of one that makes it smaller behind it.                        *)
(***************************************************************************)
EXTENDS Integers, Sequences, FiniteSets

CONSTANTS Capacity, SegmentsPerExtent, WindowStart, WindowLength, Cases   \* as in SpreadWithRewiring

VARIABLES case, keys, m_segment_sizes, separator, m_position, m_extents_to_rewire,
          m_partition_id, m_partition_offset, m_insert_segment, m_insert_to_segment,
          m_insert_predecessor, m_insert_successor, pc, extent_id, pair, input, output

S == INSTANCE SpreadWithRewiring

\* The constructor, set_element_to_insert and set_absolute_position.
Init == S!Init

reset_current_partition == S!StepBackwards([id |-> Len(case.partitions) - 1,
                                            offset |-> case.partitions[Len(case.partitions)].m_segments - 1])
position2extent(position) == S!position2extent(position)
extent2segment(extent) == S!extent2segment(extent)
get_current_extent(position) == S!CurrentExtent(position)
get_offset(extent) == S!get_offset(extent)
get_partition_current == S!get_partition_current
get_partition_next == S!get_partition_next
move_current_partition_backwards_by == S!move_current_partition
input_run == S!InputBackwards
use_rewiring == S!use_rewiring
fetch_previous_run(consumed) == S!FetchBackwards(consumed)

spread_extent == S!StartExtent
start_pair == S!StartPair
end_pair == S!EndPair
reclaim_past_extents == S!EndExtent
update_segment_sizes == S!Finish

-----------------------------------------------------------------------------
\* Mutant: the last key of the input is compared with the new one.
MergesAbove ==
    m_insert_segment # S!NotSet /\ (input.run = 0 \/ keys[input.displacement + input.run - 1] <= case.insert_key)

\* There is no input left, or the part of it that fits the output starts not above the key.
Merges ==
    LET elements_to_copy == S!Min2(output.run, input.run)
    IN  /\ m_insert_segment # S!NotSet
        /\ \/ input.run = 0
           \/ keys[input.displacement + input.run - elements_to_copy] <= case.insert_key

\* The elements taken from the input: one less than fit, to make room for the key.
input_copied ==
    LET elements_to_copy == S!Min2(output.run, input.run)
    IN  IF Merges /\ elements_to_copy > 0 THEN elements_to_copy - 1 ELSE elements_to_copy

InputCopied == S!InputChunk(input.displacement + input.run - input_copied, input_copied)

\* merge_to_insert: the key goes behind those that are not greater.
insert_position == Cardinality({i \in DOMAIN InputCopied : InputCopied[i] <= case.insert_key})
merge_to_insert ==
    SubSeq(InputCopied, 1, insert_position) \o <<case.insert_key>>
        \o SubSeq(InputCopied, insert_position + 1, Len(InputCopied))

OutputCopied == IF Merges THEN merge_to_insert ELSE InputCopied

\* Where the output starts in the extent, and the segments of the pair relative to that.
OutputStart == output.displacement + output.run - Len(OutputCopied)
output_lhs_start == - (output.run - Len(OutputCopied))
output_rhs_start == output_lhs_start + get_partition_current
output_rhs_end == output_rhs_start + get_partition_next

\* The record of the insertion for the detector.
Predecessor ==
    IF insert_position = output_lhs_start \/ insert_position = output_rhs_start THEN S!MinKey
    ELSE IF insert_position > 0 THEN OutputCopied[insert_position] ELSE m_insert_predecessor
Successor ==
    IF insert_position = output_rhs_start - 1 \/ insert_position = output_rhs_end - 1 THEN S!MaxKey
    ELSE IF insert_position + 1 < Len(OutputCopied) THEN OutputCopied[insert_position + 2]
    ELSE S!OutputKey(OutputStart + insert_position + 1)

\* A predecessor that is not known yet is taken from the next run of the input.
Amended(predecessor, successor, fetched) ==
    IF predecessor # S!NotSet \/ successor = S!NotSet THEN predecessor
    ELSE IF fetched.run > 0 THEN keys[fetched.displacement + fetched.run - 1] ELSE S!MinKey

\* One iteration of the copy loop of spread_elements.
spread_elements ==
    LET consumed == [input EXCEPT !.run = @ - input_copied]
        fetched == fetch_previous_run(consumed)
        predecessor == IF Merges THEN Predecessor ELSE m_insert_predecessor
        successor == IF Merges THEN Successor ELSE m_insert_successor
    IN  /\ pc = "copy" /\ output.run > 0
        /\ S!CopyOut(OutputCopied, OutputStart)
        /\ input' = fetched
        /\ output' = [output EXCEPT !.run = @ - Len(OutputCopied)]
        /\ m_insert_segment' = IF Merges THEN S!NotSet ELSE m_insert_segment
        /\ m_insert_to_segment' =
              IF Merges THEN extent2segment(extent_id) + pair + (IF insert_position >= output_rhs_start THEN 1 ELSE 0)
              ELSE m_insert_to_segment
        /\ m_insert_successor' = successor
        /\ m_insert_predecessor' =
              IF consumed.run = 0 THEN Amended(predecessor, successor, fetched) ELSE predecessor
        /\ UNCHANGED <<case, m_segment_sizes, separator, m_position, m_partition_id, m_partition_offset,
                       pc, extent_id, pair>>

Next ==
    \/ spread_extent
    \/ start_pair
    \/ spread_elements
    \/ end_pair
    \/ reclaim_past_extents
    \/ update_segment_sizes
    \/ S!Done

Spec == Init /\ [][Next]_S!vars

-----------------------------------------------------------------------------
\* The i-th element of the input has the key 2 * i.
Elements == Cardinality({p \in DOMAIN case.keys : case.keys[p] # S!Stale})
Expected ==
    LET Evens(from, to) == [i \in 1 .. (to - from + 1) |-> 2 * (from + i - 1)]
        below == case.insert_key \div 2
    IN  IF case.insert_segment = S!NotSet THEN Evens(1, Elements)
        ELSE Evens(1, below) \o <<case.insert_key>> \o Evens(below + 1, Elements)

\* At the end the window holds the elements of the array and the new one in order, in the
\* sizes of the partitions and with their separators, whether the array is spread in place,
\* made larger or made smaller, and every buffer was released; the segment reported to the
\* detector is that of the new element.
SpreadCorrect ==
    pc = "done" =>
        /\ S!Content = Expected
        /\ m_extents_to_rewire = <<>>
        /\ \A s \in S!Window : separator[s] = keys[S!SegmentBegin(m_segment_sizes, s)]
        /\ case.insert_segment # S!NotSet =>
              \E p \in S!SegmentSlots(m_segment_sizes, m_insert_to_segment) : keys[p] = case.insert_key

\* The predecessor handed to the detector is the element before the new one in its segment,
\* or the minimum where there is none.
PredecessorIsPrevious ==
    pc = "done" /\ case.insert_segment # S!NotSet =>
        LET slots == S!SegmentSlots(m_segment_sizes, m_insert_to_segment)
            before == {keys[p] : p \in {p \in slots : p + 1 \in slots /\ keys[p + 1] = case.insert_key}}
        IN  m_insert_predecessor \in before \union {S!MinKey}
=============================================================================
