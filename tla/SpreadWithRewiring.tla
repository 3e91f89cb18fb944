-------------------------- MODULE SpreadWithRewiring --------------------------
(***************************************************************************)
(* class SpreadWithRewiring (pma/adaptive/int2/spread_with_rewiring.cpp):  *)
(* redistribute the elements of a window of segments according to the      *)
(* partitions that the adaptive strategy asks for, and insert one element  *)
(* on the way.  The output overtakes the input, so the extents that still  *)
(* hold unread input are written to buffers of BufferedRewiredMemory and   *)
(* rewired into place once the input has moved past them.                  *)
(*                                                                         *)
(* A slot holds a key; its value moves with it, by the same offsets.  Keys *)
(* are positive.  An even segment is packed to its right end and an odd    *)
(* one to its left end, hence a pair of segments is one run of elements.   *)
(***************************************************************************)
EXTENDS Integers, Sequences, FiniteSets

CONSTANTS
    Capacity,           \* m_segment_capacity
    SegmentsPerExtent,  \* m_segments_per_extent
    WindowStart,        \* m_window_start, in segments
    WindowLength,       \* m_window_length, in segments
    Cases               \* the states in which PackedMemoryArray starts a spread

SpreadAssumption ==
    /\ Capacity \in Nat \ {0}
    /\ SegmentsPerExtent \in Nat \ {0}
    /\ WindowStart \in Nat /\ WindowLength \in Nat \ {0}
    /\ WindowLength % SegmentsPerExtent = 0    \* the assertions of spread_window
    /\ WindowStart % SegmentsPerExtent = 0

VARIABLES
    case,                 \* what the caller asked for; never changes
    keys,                 \* m_storage.m_keys, slot -> key
    m_segment_sizes,
    separator,            \* the separator keys of the index, by segment
    m_position,
    m_extents_to_rewire,  \* queue of [m_extent_id, buffer]
    m_partition_id, m_partition_offset,
    m_insert_segment, m_insert_to_segment, m_insert_predecessor, m_insert_successor,
    pc,                   \* extent, pair, copy, reclaim, finish or done
    extent_id,            \* loop variable of spread_window
    pair,                 \* loop variable of spread_elements: first segment of the pair
    input,                \* [segment, displacement, run]: input_segment_id, input_keys, input_run_sz
    output                \* [displacement, run]: output_keys, output_run_sz

cursor_vars == <<m_partition_id, m_partition_offset>>
insert_vars == <<m_insert_segment, m_insert_to_segment, m_insert_predecessor, m_insert_successor>>
vars == <<case, keys, m_segment_sizes, separator, m_position, m_extents_to_rewire, cursor_vars,
          insert_vars, pc, extent_id, pair, input, output>>

Window == WindowStart .. (WindowStart + WindowLength - 1)

Slots == 0 .. ((WindowStart + WindowLength) * Capacity - 1)

ExtentSlots == SegmentsPerExtent * Capacity

NumExtents == WindowLength \div SegmentsPerExtent

Stale == 0         \* contents of a slot outside the segments' elements
NotSet == -1       \* initial value of the m_insert fields
MinKey == -2       \* numeric_limits<int64_t>::min(), less than every key
MaxKey == 1000000  \* numeric_limits<int64_t>::max(), named bound on the keys

Min2(a, b) == IF a < b THEN a ELSE b

\* The sum of the first n numbers of a sequence, for every n.
Sums(f) ==
    LET Upto[n \in 0 .. Len(f)] == IF n = 0 THEN 0 ELSE Upto[n - 1] + f[n] IN Upto

SumOver(sizes, segments) ==
    LET end == WindowStart + WindowLength
    IN  Sums([i \in 1 .. end |-> IF i - 1 \in segments THEN sizes[i - 1] ELSE 0])[end]

\* First slot of a segment's elements.
SegmentBegin(sizes, s) == s * Capacity + (IF s % 2 = 0 THEN Capacity - sizes[s] ELSE 0)

\* The slots of a segment's elements.
SegmentSlots(sizes, s) == SegmentBegin(sizes, s) .. (SegmentBegin(sizes, s) + sizes[s] - 1)

\* A storage before the spread: the i-th element of the window has the key 2 * i.
InitialKeys(sizes) ==
    [p \in Slots |->
        LET s == p \div Capacity
        IN  IF s \in Window /\ p \in SegmentSlots(sizes, s)
            THEN 2 * (SumOver(sizes, {t \in Window : t < s}) + p - SegmentBegin(sizes, s) + 1)
            ELSE Stale]

SegmentsOf(partitions) == [id \in DOMAIN partitions |-> partitions[id].m_segments]
ElementsOf(partitions) == [id \in DOMAIN partitions |-> partitions[id].m_cardinality]

\* What PackedMemoryArray asks for: partitions that share out the elements of the window and
\* the new one, none of its segments left empty or overfull; no pair of segments is empty.
\* To the right of the input of a spread from right to left there is nothing.
IsCase(c) ==
    LET Pairs == {s \in Window : s % 2 = 0}
        Size(s) == c.sizes[s] + c.sizes[s + 1]
        inserts == c.insert_segment # NotSet
        n == Len(c.partitions)
    IN  /\ c.sizes \in [0 .. (WindowStart + WindowLength - 1) -> 0 .. Capacity]
        /\ c.keys \in [Slots -> Int] /\ c.insert_key \in Int
        /\ c.insert_segment \in Window \union {NotSet}
        /\ c.partitions \in Seq([m_cardinality : Nat, m_segments : Nat \ {0}])
        /\ \A id \in 1 .. n :
              LET p == c.partitions[id]
              IN  p.m_segments <= p.m_cardinality /\ p.m_cardinality <= p.m_segments * Capacity
        /\ Sums(SegmentsOf(c.partitions))[n] = WindowLength
        /\ Sums(ElementsOf(c.partitions))[n] = SumOver(c.sizes, Window) + IF inserts THEN 1 ELSE 0
        /\ \/ c.move_backwards = FALSE /\ \A s \in Pairs : Size(s) > 0
           \/ /\ c.move_backwards = TRUE /\ ~ inserts
              /\ \E last \in Pairs :
                    /\ c.start_position = (last + 1) * Capacity + c.sizes[last + 1]
                    /\ \A s \in Pairs : Size(s) > 0 <=> s <= last

\* The callers keep to it, and extents hold whole pairs of segments.
CallersAssumption ==
    /\ SegmentsPerExtent % 2 = 0
    /\ \A c \in Cases : IsCase(c)

\* get_partition_current: the cardinality of the segment under the cursor.
PartitionAt(id, offset) ==
    IF id >= Len(case.partitions) THEN 0
    ELSE LET p == case.partitions[id + 1]
         IN  p.m_cardinality \div p.m_segments
                + (IF offset < p.m_cardinality % p.m_segments THEN 1 ELSE 0)

StepForwards(c) ==
    IF c.id >= Len(case.partitions) THEN c
    ELSE IF c.offset + 1 >= case.partitions[c.id + 1].m_segments
         THEN [id |-> c.id + 1, offset |-> 0]
         ELSE [c EXCEPT !.offset = @ + 1]

StepBackwards(c) ==
    IF c.offset > 0 THEN [c EXCEPT !.offset = @ - 1]
    ELSE IF c.id > 0
         THEN [id |-> c.id - 1, offset |-> case.partitions[c.id].m_segments - 1]
         ELSE c

Cursor == [id |-> m_partition_id, offset |-> m_partition_offset]

get_partition_current == PartitionAt(m_partition_id, m_partition_offset)

get_partition_next ==
    LET next == StepForwards(Cursor) IN PartitionAt(next.id, next.offset)

\* move_current_partition_by(2), or (-2) when moving backwards.
move_current_partition ==
    LET moved == IF case.move_backwards THEN StepBackwards(StepBackwards(Cursor))
                 ELSE StepForwards(StepForwards(Cursor))
    IN  m_partition_id' = moved.id /\ m_partition_offset' = moved.offset

\* Relative extent of an absolute slot; \div rounds down, as floor does.
position2extent(position) ==
    ((position - WindowStart * Capacity) \div Capacity) \div SegmentsPerExtent

CurrentExtent(position) == position2extent(position + (IF case.move_backwards THEN -1 ELSE 0))

extent2segment(extent) == WindowStart + extent * SegmentsPerExtent

get_offset(extent) == WindowStart * Capacity + extent * ExtentSlots

\* The constructor, set_element_to_insert and set_absolute_position.
Init ==
    /\ case \in Cases
    /\ keys = case.keys
    /\ m_segment_sizes = case.sizes
    /\ separator = [s \in Window |-> NotSet]
    /\ m_position = IF case.move_backwards THEN case.start_position
                    ELSE SegmentBegin(case.sizes, WindowStart)
    /\ m_extents_to_rewire = <<>>
    /\ LET last == Len(case.partitions) - 1
           start == IF case.move_backwards
                    THEN StepBackwards([id |-> last,
                                        offset |-> case.partitions[last + 1].m_segments - 1])
                    ELSE [id |-> 0, offset |-> 0]
       IN  m_partition_id = start.id /\ m_partition_offset = start.offset
    /\ m_insert_segment = case.insert_segment
    /\ m_insert_to_segment = NotSet
    /\ m_insert_predecessor = NotSet
    /\ m_insert_successor = NotSet
    /\ pc = "extent"
    /\ extent_id = IF case.move_backwards THEN NumExtents - 1 ELSE 0
    /\ pair = 0
    /\ input = [segment |-> 0, displacement |-> 0, run |-> 0]
    /\ output = [displacement |-> 0, run |-> 0]
-----------------------------------------------------------------------------
\* The run at m_position: the rest of the pair of segments it lies in.
InputForwards ==
    LET segment == m_position \div Capacity
        offset == m_position % Capacity
    IN  [segment |-> segment,
         displacement |-> m_position,
         run |-> IF segment % 2 = 0
                 THEN Capacity - offset + m_segment_sizes[segment + 1]
                 ELSE m_segment_sizes[segment] - offset]

InputBackwards ==
    LET segment == ((m_position - 1) \div (2 * Capacity)) * 2
    IN  [segment |-> segment,
         displacement |-> SegmentBegin(m_segment_sizes, segment),
         run |-> m_position - SegmentBegin(m_segment_sizes, segment)]

\* Mutant: buffers are used only when input and output are in the same extent.
UseRewiringSameExtent == CurrentExtent(m_position) = extent_id

\* The output extent still holds unread input, or will be reached by the input.
use_rewiring ==
    IF case.move_backwards THEN CurrentExtent(m_position) >= extent_id
    ELSE CurrentExtent(m_position) <= extent_id

FirstPair == IF case.move_backwards THEN SegmentsPerExtent - 2 ELSE 0

\* spread_extent up to the loop of spread_elements.
StartExtent ==
    /\ pc = "extent"
    /\ m_extents_to_rewire' =
          IF use_rewiring
          THEN Append(m_extents_to_rewire,
                      [m_extent_id |-> extent_id,
                       buffer |-> [i \in 0 .. (ExtentSlots - 1) |-> Stale]])
          ELSE m_extents_to_rewire
    /\ input' = IF case.move_backwards THEN InputBackwards ELSE InputForwards
    /\ pair' = FirstPair
    /\ pc' = IF FirstPair >= 0 THEN "pair" ELSE "reclaim"
    /\ UNCHANGED <<case, keys, m_segment_sizes, separator, m_position, cursor_vars, insert_vars,
                   extent_id, output>>

\* The displacement is relative to the start of the output extent.
StartPair ==
    /\ pc = "pair"
    /\ output' = [displacement |-> pair * Capacity + (Capacity - get_partition_current),
                  run |-> get_partition_current + get_partition_next]
    /\ pc' = "copy"
    /\ UNCHANGED <<case, keys, m_segment_sizes, separator, m_position, m_extents_to_rewire,
                   cursor_vars, insert_vars, extent_id, pair, input>>

\* The output extent was given a buffer, which is then the last of the queue.
OutputToBuffer ==
    /\ m_extents_to_rewire # <<>>
    /\ m_extents_to_rewire[Len(m_extents_to_rewire)].m_extent_id = extent_id

\* memcpy of a chunk to the output extent, at a relative displacement.
CopyOut(chunk, displacement) ==
    LET Copied(f, base) ==
            [p \in DOMAIN f |->
                LET i == p - base - displacement + 1
                IN  IF i \in DOMAIN chunk THEN chunk[i] ELSE f[p]]
    IN  IF OutputToBuffer
        THEN /\ m_extents_to_rewire' =
                   [m_extents_to_rewire EXCEPT
                       ![Len(m_extents_to_rewire)].buffer = Copied(@, 0)]
             /\ UNCHANGED keys
        ELSE /\ keys' = Copied(keys, get_offset(extent_id))
             /\ UNCHANGED m_extents_to_rewire

\* What the output extent holds at a relative displacement.
OutputKey(displacement) ==
    IF OutputToBuffer
    THEN m_extents_to_rewire[Len(m_extents_to_rewire)].buffer[displacement]
    ELSE keys[get_offset(extent_id) + displacement]

InputChunk(displacement, n) == [i \in 1 .. n |-> keys[displacement + i - 1]]

\* A read of the key array that may fall past the end of the window.
KeyAt(displacement) == IF displacement \in DOMAIN keys THEN keys[displacement] ELSE Stale

\* Mutant: the next run is never fetched.
FetchForwardsMissing(consumed) == consumed

\* The run is finished: on to the next pair of segments, or past the window.
FetchForwards(consumed) ==
    IF consumed.run > 0 THEN consumed
    ELSE LET segment == consumed.segment + 1 + (IF consumed.segment % 2 = 0 THEN 1 ELSE 0)
         IN  IF segment \in Window
             THEN [segment |-> segment,
                   displacement |-> SegmentBegin(m_segment_sizes, segment),
                   run |-> m_segment_sizes[segment] + m_segment_sizes[segment + 1]]
             ELSE [segment |-> segment,
                   displacement |-> (WindowStart + WindowLength) * Capacity,
                   run |-> 0]

\* Mutant: the previous run is never fetched.
FetchBackwardsMissing(consumed) == consumed

FetchBackwards(consumed) ==
    IF consumed.run > 0 THEN consumed
    ELSE LET segment == consumed.segment - 2
         IN  IF segment >= WindowStart
             THEN [segment |-> segment,
                   displacement |-> SegmentBegin(m_segment_sizes, segment),
                   run |-> m_segment_sizes[segment] + m_segment_sizes[segment + 1]]
             ELSE [segment |-> segment, displacement |-> WindowStart * Capacity, run |-> 0]

\* Output offsets, relative to the current output position, where the left and the
\* right segment of the pair end.
LhsEnd == (pair + 1) * Capacity - output.displacement

RhsEnd == LhsEnd + get_partition_next

\* The key goes before the first element of the chunk that is not smaller, or after
\* the last element of the window.  The new chunk and where the key is in it, from 0.
merge_to_insert(chunk) ==
    LET smaller == Cardinality({i \in DOMAIN chunk :
                                   \A j \in 1 .. i : chunk[j] < case.insert_key})
    IN  IF smaller < Len(chunk) \/ chunk = <<>>
        THEN [chunk |-> SubSeq(chunk, 1, smaller) \o <<case.insert_key>>
                           \o SubSeq(chunk, smaller + 1, Len(chunk) - 1),
              position |-> smaller]
        ELSE [chunk |-> chunk, position |-> -1]

\* Mutant: the predecessor is taken across the border of the two segments.
InsertRecordAcross(merged, elements_to_copy) ==
    LET position == merged.position
    IN  [to_segment |-> extent2segment(extent_id) + pair + (IF position >= LhsEnd THEN 1 ELSE 0),
         predecessor |-> IF position = 0 /\ elements_to_copy > 0 THEN MinKey
                         ELSE IF position = 0 THEN OutputKey(output.displacement - 1)
                         ELSE merged.chunk[position],
         successor |-> m_insert_successor]

\* The insertion that merge_to_insert leaves to be reported to the detector.
InsertRecord(merged, elements_to_copy) ==
    LET position == merged.position
    IN  [to_segment |-> extent2segment(extent_id) + pair + (IF position >= LhsEnd THEN 1 ELSE 0),
         predecessor |->
              IF (position = 0 /\ elements_to_copy > 0) \/ position = LhsEnd THEN MinKey
              ELSE IF position = 0 THEN OutputKey(output.displacement - 1)
              ELSE merged.chunk[position],
         successor |->
              IF position = LhsEnd - 1 \/ position = RhsEnd - 1 THEN MaxKey
              ELSE IF position < elements_to_copy - 1 THEN merged.chunk[position + 2]
              ELSE m_insert_successor]

\* The input has reached the pair of segments of the new key, or is past it.
Merges == m_insert_segment >= 0 /\ m_insert_segment <= input.segment + 1

\* One iteration of the copy loop of spread_elements_left2right, with or without a merge.
CopyForwardsWith(merges) ==
    LET elements_to_copy == Min2(output.run, input.run)
        chunk == InputChunk(input.displacement, elements_to_copy)
        merged == IF merges THEN merge_to_insert(chunk) ELSE [chunk |-> chunk, position |-> -1]
        inserted == merged.position >= 0
        copied == Len(merged.chunk) - (IF inserted THEN 1 ELSE 0)
        consumed == [input EXCEPT !.displacement = @ + copied, !.run = @ - copied]
        fetched == FetchForwards(consumed)
        record == IF inserted THEN InsertRecord(merged, elements_to_copy)
                  ELSE [to_segment |-> m_insert_to_segment,
                        predecessor |-> m_insert_predecessor,
                        successor |-> m_insert_successor]
    IN  /\ pc = "copy" /\ output.run > 0 /\ ~ case.move_backwards
        /\ CopyOut(merged.chunk, output.displacement)
        /\ input' = fetched
        /\ output' = [displacement |-> output.displacement + Len(merged.chunk),
                      run |-> output.run - Len(merged.chunk)]
        /\ m_insert_segment' = IF inserted THEN NotSet ELSE m_insert_segment
        /\ m_insert_to_segment' = record.to_segment
        /\ m_insert_predecessor' = record.predecessor
        /\ m_insert_successor' =
              IF /\ consumed.run = 0
                 /\ record.predecessor # NotSet /\ record.successor = NotSet
              THEN KeyAt(fetched.displacement)
              ELSE record.successor
        /\ UNCHANGED <<case, m_segment_sizes, separator, m_position, cursor_vars, pc, extent_id,
                       pair>>

CopyForwards == CopyForwardsWith(Merges)

\* One iteration of the copy loop of spread_elements_right2left: the run is filled
\* from its end, output.displacement stays at its start.
CopyBackwards ==
    LET elements_to_copy == Min2(output.run, input.run)
        chunk == InputChunk(input.displacement + input.run - elements_to_copy, elements_to_copy)
    IN  /\ pc = "copy" /\ output.run > 0 /\ case.move_backwards
        /\ CopyOut(chunk, output.displacement + output.run - elements_to_copy)
        /\ input' = FetchBackwards([input EXCEPT !.run = @ - elements_to_copy])
        /\ output' = [output EXCEPT !.run = @ - elements_to_copy]
        /\ UNCHANGED <<case, m_segment_sizes, separator, m_position, cursor_vars, insert_vars, pc,
                       extent_id, pair>>

\* The pair is complete: set its two separator keys and move the partition cursor.
EndPair ==
    LET first == (pair + 1) * Capacity - get_partition_current
        segment == extent2segment(extent_id) + pair
        next == IF case.move_backwards THEN pair - 2 ELSE pair + 2
    IN  /\ pc = "copy" /\ output.run = 0
        /\ separator' = [separator EXCEPT ![segment] = OutputKey(first),
                                          ![segment + 1] = OutputKey((pair + 1) * Capacity)]
        /\ move_current_partition
        /\ pair' = next
        /\ pc' = IF next >= 0 /\ next < SegmentsPerExtent THEN "pair" ELSE "reclaim"
        /\ UNCHANGED <<case, keys, m_segment_sizes, m_position, m_extents_to_rewire, insert_vars,
                       extent_id, input, output>>

\* How many buffers at the head of the queue have been passed by the input.
PastExtents(position) ==
    Cardinality({i \in DOMAIN m_extents_to_rewire :
        \A j \in 1 .. i :
            LET extent == m_extents_to_rewire[j].m_extent_id
            IN  IF case.move_backwards THEN extent > CurrentExtent(position)
                ELSE extent < CurrentExtent(position)})

\* The end of spread_elements and reclaim_past_extents.
EndExtent ==
    LET position == input.displacement + (IF case.move_backwards THEN input.run ELSE 0)
        past == PastExtents(position)
        next == extent_id + (IF case.move_backwards THEN -1 ELSE 1)
    IN  /\ pc = "reclaim"
        /\ m_position' = position
        /\ keys' = [p \in DOMAIN keys |->
                       LET rewired == {i \in 1 .. past :
                                          m_extents_to_rewire[i].m_extent_id = position2extent(p)}
                       IN  IF rewired = {} THEN keys[p]
                           ELSE m_extents_to_rewire[CHOOSE i \in rewired : TRUE]
                                   .buffer[p - get_offset(position2extent(p))]]
        /\ m_extents_to_rewire' =
              SubSeq(m_extents_to_rewire, past + 1, Len(m_extents_to_rewire))
        /\ extent_id' = next
        /\ pc' = IF next \in 0 .. (NumExtents - 1) THEN "extent" ELSE "finish"
        /\ UNCHANGED <<case, m_segment_sizes, separator, cursor_vars, insert_vars, pair, input,
                       output>>

\* The size that the partitions give to the i-th segment of the window, from 0.
TargetSize(partitions, i) ==
    LET Before == Sums(SegmentsOf(partitions))
        id == CHOOSE k \in DOMAIN partitions : Before[k - 1] <= i /\ i < Before[k]
        p == partitions[id]
    IN  p.m_cardinality \div p.m_segments
           + (IF i - Before[id - 1] < p.m_cardinality % p.m_segments THEN 1 ELSE 0)

\* Mutant: the remainder of a partition goes to its last segments instead of its first.
SizesRemainderLast(partitions) ==
    [s \in DOMAIN m_segment_sizes |->
        IF s \in Window
        THEN TargetSize(partitions, WindowLength - 1 - (s - WindowStart))
        ELSE m_segment_sizes[s]]

UpdatedSizes(partitions) ==
    [s \in DOMAIN m_segment_sizes |->
        IF s \in Window THEN TargetSize(partitions, s - WindowStart) ELSE m_segment_sizes[s]]

\* update_segment_sizes and finalize_insert.
Finish ==
    /\ pc = "finish"
    /\ m_segment_sizes' = UpdatedSizes(case.partitions)
    /\ pc' = "done"
    /\ UNCHANGED <<case, keys, separator, m_position, m_extents_to_rewire, cursor_vars,
                   insert_vars, extent_id, pair, input, output>>

Done == pc = "done" /\ UNCHANGED vars

Next ==
    \/ StartExtent
    \/ StartPair
    \/ CopyForwards
    \/ CopyBackwards
    \/ EndPair
    \/ EndExtent
    \/ Finish
    \/ Done

\* One thread runs execute to its end.
Spec == Init /\ [][Next]_vars /\ WF_vars(Next)
-----------------------------------------------------------------------------
TypeInv ==
    /\ keys \in [Slots -> Int]
    /\ m_segment_sizes \in [0 .. (WindowStart + WindowLength - 1) -> 0 .. Capacity]
    /\ separator \in [Window -> Int]
    /\ m_position \in 0 .. ((WindowStart + WindowLength) * Capacity)
    /\ pc \in {"extent", "pair", "copy", "reclaim", "finish", "done"}
    /\ extent_id \in -1 .. NumExtents
    /\ output.run \in 0 .. (2 * Capacity)

\* The slots of the original elements that have not been copied yet.  In the middle
\* of an extent the input cursor says where they start, between extents m_position.
UnreadSlots ==
    LET slots == UNION {SegmentSlots(case.sizes, s) : s \in Window}
        inside == pc \in {"pair", "copy", "reclaim"}
    IN  IF case.move_backwards
        THEN LET end == IF inside THEN input.displacement + input.run ELSE m_position
             IN  {p \in slots : p < end}
        ELSE LET begin == IF inside THEN input.displacement ELSE m_position
             IN  {p \in slots : p >= begin}

\* The slots of the window that the rest of the current pair will be written to.
PendingOutput ==
    IF pc # "copy" \/ OutputToBuffer THEN {}
    ELSE LET begin == get_offset(extent_id) + output.displacement
         IN  begin .. (begin + output.run - 1)

\* Writing the output never destroys an element that is still to be read, although
\* input and output share the window and either may be ahead of the other; and no
\* memcpy has overlapping arguments.
UnreadIntact ==
    pc \notin {"finish", "done"} =>
        /\ \A p \in UnreadSlots : keys[p] = case.keys[p]
        /\ PendingOutput \intersect UnreadSlots = {}

\* The assertion that closes spread_window: every buffer acquired has been rewired
\* in the place of its extent and released.
AllBuffersReleased == pc \in {"finish", "done"} => m_extents_to_rewire = <<>>

Sorted(seq) == \A i \in 1 .. (Len(seq) - 1) : seq[i] <= seq[i + 1]

\* The elements of the window in the order of its segments.
Content ==
    LET Upto[s \in 0 .. WindowLength] ==
            IF s = 0 THEN <<>>
            ELSE LET segment == WindowStart + s - 1
                     begin == SegmentBegin(m_segment_sizes, segment)
                 IN  Upto[s - 1] \o [i \in 1 .. m_segment_sizes[segment] |-> keys[begin + i - 1]]
    IN  Upto[WindowLength]

Occurrences(seq, k) == Cardinality({i \in DOMAIN seq : seq[i] = k})

\* At the end the window holds, in order, exactly the elements it held before and
\* the new one; every segment has the size its partition asked for, its separator
\* is its least key, and the new element is in the segment reported to the detector.
WindowCorrect ==
    pc = "done" =>
        LET before == SumOver(case.sizes, Window)
            inserts == case.insert_segment # NotSet
        IN  /\ Sorted(Content)
            /\ Len(Content) = before + (IF inserts THEN 1 ELSE 0)
            /\ \A k \in 1 .. (2 * before + 1) :
                  Occurrences(Content, k) =
                      (IF k % 2 = 0 THEN 1 ELSE 0) + (IF inserts /\ k = case.insert_key THEN 1 ELSE 0)
            /\ \A s \in Window : separator[s] = keys[SegmentBegin(m_segment_sizes, s)]
            /\ inserts => \E p \in SegmentSlots(m_segment_sizes, m_insert_to_segment) :
                             keys[p] = case.insert_key
            /\ m_insert_segment = NotSet

\* The spread is correct, on the way and at its end: no element is overwritten before it is
\* read, every buffer is released, and the window holds what it should.
SpreadCorrect == TypeInv /\ UnreadIntact /\ AllBuffersReleased /\ WindowCorrect

\* The predecessor reported to the detector is the key before the new one, or the
\* minimum when the new key opens its segment or a run of the input.
PredecessorIsPrevious ==
    pc = "done" /\ m_insert_to_segment # NotSet /\ m_insert_predecessor # MinKey =>
        \E p \in SegmentSlots(m_segment_sizes, m_insert_to_segment) :
            /\ p + 1 \in SegmentSlots(m_segment_sizes, m_insert_to_segment)
            /\ keys[p] = m_insert_predecessor
            /\ keys[p + 1] = case.insert_key

\* The copy loops end: no run of length zero makes them spin.
Terminates == <>(pc = "done")
=============================================================================
