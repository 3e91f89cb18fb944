------------------------ MODULE BH07SpreadWithRewiring ------------------------
(***************************************************************************)
(* class SpreadWithRewiring of pma/adaptive/bh07_v2: the spread of int2    *)
(* (SpreadWithRewiring), whose text it shares but for the test that says   *)
(* when the new element is merged in.  The record of the insertion that    *)
(* int2 leaves for its detector is kept by the operators of int2; nothing  *)
(* here depends on it.                                                     *)
(***************************************************************************)
EXTENDS Integers, Sequences, FiniteSets

CONSTANTS Capacity, SegmentsPerExtent, WindowStart, WindowLength, Cases   \* as in SpreadWithRewiring

VARIABLES case, keys, m_segment_sizes, separator, m_position, m_extents_to_rewire,
          m_partition_id, m_partition_offset, m_insert_segment, m_insert_to_segment,
          m_insert_predecessor, m_insert_successor, pc, extent_id, pair, input, output

S == INSTANCE SpreadWithRewiring

reset_current_position(sizes, s) == S!SegmentBegin(sizes, s)
position2extent(position) == S!position2extent(position)
extent2segment(extent) == S!extent2segment(extent)
get_current_extent(position) == S!CurrentExtent(position)
get_offset(extent) == S!get_offset(extent)
get_partition_current == S!get_partition_current
get_partition_next == S!get_partition_next
move_current_partition_forwards(c) == S!StepForwards(c)
move_current_partition_backwards(c) == S!StepBackwards(c)
move_current_partition_by == S!move_current_partition
merge_to_insert(chunk) == S!merge_to_insert(chunk)
fetch_next_run(consumed) == S!FetchForwards(consumed)
fetch_previous_run(consumed) == S!FetchBackwards(consumed)
use_rewiring == S!use_rewiring
update_segment_sizes == S!UpdatedSizes(case.partitions)

\* The constructor, set_element_to_insert and set_absolute_position.
Init == S!Init

spread_extent == S!StartExtent
start_pair == S!StartPair

\* Mutant: the second segment of the pair is not looked at.
MergesInFirst == m_insert_segment = input.segment \/ input.segment >= WindowStart + WindowLength

\* The input is in the segment of the new element or before it in the same pair, or past
\* the window.  Where an extent starts in the middle of a pair, the segment may be odd.
Merges ==
    \/ m_insert_segment = input.segment
    \/ m_insert_segment = input.segment + 1
    \/ input.segment >= WindowStart + WindowLength

spread_elements_left2right == S!CopyForwardsWith(Merges)
spread_elements_right2left == S!CopyBackwards
end_pair == S!EndPair
reclaim_past_extents == S!EndExtent
execute == S!Finish

Next ==
    \/ spread_extent
    \/ start_pair
    \/ spread_elements_left2right
    \/ spread_elements_right2left
    \/ end_pair
    \/ reclaim_past_extents
    \/ execute
    \/ S!Done

Spec == Init /\ [][Next]_S!vars
-----------------------------------------------------------------------------
\* At the end of a spread whose new element is not above all the others of its segment, or
\* of a resize, the window holds all the elements in order, in the sizes of the partitions.
SpreadCorrect == S!SpreadCorrect

\* "iff elements_to_copy == 0 => this is the last segment in the window and the new element
\* is the maximum": the comment of merge_to_insert on an element appended to the output.
AppendedIsMaximum ==
    pc = "copy" /\ output.run > 0 /\ ~ case.move_backwards /\ m_insert_segment # S!NotSet /\ input.run = 0 =>
        \A p \in DOMAIN case.keys : case.keys[p] < case.insert_key
=============================================================================
