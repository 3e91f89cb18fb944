------------------------------- MODULE MCSpread -------------------------------
(* The six procedures that spread elements over segments, each on its own.  The one in  *)
(* place, of segments of three slots, has the variables of SpreadInPlace; the others     *)
(* share those of SpreadWithRewiring, and the ones a procedure has no use for are Unused. *)
EXTENDS SpreadInPlace, Sequences

CONSTANTS
    Procedures,       \* the procedures to check
    ForwardCases, BackwardCases, Int3Cases, BH07Cases, BulkCalls   \* the windows each starts from

VARIABLES procedure, case, keys, m_segment_sizes, separator, m_position, m_extents_to_rewire,
          m_partition_id, m_partition_offset, m_insert_segment, m_insert_to_segment,
          m_insert_predecessor, m_insert_successor, pc, extent_id, pair_id, input, output_id

rewiring == <<case, keys, m_segment_sizes, separator, m_position, m_extents_to_rewire,
              m_partition_id, m_partition_offset, m_insert_segment, m_insert_to_segment,
              m_insert_predecessor, m_insert_successor, pc, extent_id, pair_id, input, output_id>>

Unused == -9

\* The second of two windows of four extents of two segments of two slots.
F == INSTANCE SpreadWithRewiring WITH
        Capacity <- 2, SegmentsPerExtent <- 2, WindowStart <- 8, WindowLength <- 8, Cases <- ForwardCases,
        pair <- pair_id, output <- output_id

\* Four extents of two segments of four slots.
B == INSTANCE SpreadWithRewiring WITH
        Capacity <- 4, SegmentsPerExtent <- 2, WindowStart <- 0, WindowLength <- 8, Cases <- BackwardCases,
        pair <- pair_id, output <- output_id

\* Three extents of two segments of three slots.
A == INSTANCE AdaptiveSpreadWithRewiring WITH
        Capacity <- 3, SegmentsPerExtent <- 2, WindowStart <- 0, WindowLength <- 6, Cases <- Int3Cases,
        pair <- pair_id, output <- output_id

\* Four extents of two segments of two slots.
V == INSTANCE BH07SpreadWithRewiring WITH
        Capacity <- 2, SegmentsPerExtent <- 2, WindowStart <- 0, WindowLength <- 8, Cases <- BH07Cases,
        pair <- pair_id, output <- output_id

\* Extents of two segments of four slots.
L == INSTANCE BulkSpreadWithRewiring WITH
        SegmentCapacity <- 4, SegmentsPerExtent <- 2, Calls <- BulkCalls,
        call <- case, sizes <- m_segment_sizes, position <- m_position, sequence <- input,
        extent <- extent_id, pair <- pair_id, k <- output_id

\* Where the elements of int2, int3 and bh07_v2 lie, for the cases below.
Layout(Capacity, WindowStart, WindowLength) == INSTANCE SpreadWithRewiring WITH
        SegmentsPerExtent <- 2, Cases <- {}, pair <- pair_id, output <- output_id

ASSUME SpreadAssumptions ==
    /\ F!SpreadAssumption /\ F!CallersAssumption /\ B!SpreadAssumption /\ B!CallersAssumption
    /\ A!S!SpreadAssumption /\ V!S!SpreadAssumption
    /\ L!BulkSpreadAssumption /\ SpreadInPlaceAssumption

\* What the bulk procedure has no use for.
BulkUnused == <<separator, m_partition_id, m_partition_offset, m_insert_segment, m_insert_to_segment,
                m_insert_predecessor, m_insert_successor>>
BulkInit ==
    /\ L!Init /\ separator = Unused /\ m_partition_id = Unused /\ m_partition_offset = Unused
    /\ m_insert_segment = Unused /\ m_insert_to_segment = Unused
    /\ m_insert_predecessor = Unused /\ m_insert_successor = Unused

\* A procedure in place that does not start, and one that rewires that does not.
NotInPlace == sizes = (CHOOSE w \in Windows : TRUE) /\ Init /\ call.op = "spread" /\ call.insert = -1
NotRewired ==
    /\ case = Unused /\ keys = Unused /\ m_segment_sizes = Unused /\ separator = Unused
    /\ m_position = Unused /\ m_extents_to_rewire = Unused /\ m_partition_id = Unused
    /\ m_partition_offset = Unused /\ m_insert_segment = Unused /\ m_insert_to_segment = Unused
    /\ m_insert_predecessor = Unused /\ m_insert_successor = Unused /\ pc = Unused
    /\ extent_id = Unused /\ pair_id = Unused /\ input = Unused /\ output_id = Unused

SpreadInit ==
    /\ procedure \in Procedures
    /\ \/ procedure = "in_place" /\ Init /\ NotRewired
       \/ /\ procedure # "in_place" /\ NotInPlace
          /\ \/ procedure = "int2_forwards" /\ F!Init
             \/ procedure = "int2_backwards" /\ B!Init
             \/ procedure = "int3" /\ A!Init
             \/ procedure = "bh07" /\ V!Init
             \/ procedure = "bulk" /\ BulkInit

SpreadNext ==
    /\ UNCHANGED procedure
    /\ \/ procedure = "in_place" /\ Next /\ UNCHANGED rewiring
       \/ procedure = "int2_forwards" /\ F!Next /\ UNCHANGED vars
       \/ procedure = "int2_backwards" /\ B!Next /\ UNCHANGED vars
       \/ procedure = "int3" /\ A!Next /\ UNCHANGED vars
       \/ procedure = "bh07" /\ V!Next /\ UNCHANGED vars
       \/ procedure = "bulk" /\ L!Next /\ UNCHANGED <<vars, BulkUnused>>

\* One thread runs a procedure to its end.
SpreadSpec ==
    /\ SpreadInit /\ [][SpreadNext]_<<procedure, vars, rewiring>>
    /\ WF_<<procedure, vars, rewiring>>(SpreadNext)

-----------------------------------------------------------------------------
\* No element of a window that int2's SpreadWithRewiring spreads is overwritten before it is
\* read, every buffer is released, and at the end the window holds what it should, in order.
Int2SpreadCorrect ==
    /\ procedure = "int2_forwards" => F!SpreadCorrect
    /\ procedure = "int2_backwards" => B!SpreadCorrect

\* The predecessor that finalize_insert hands to the detector is the key before the new one.
PredecessorIsPrevious == procedure = "int2_forwards" => F!PredecessorIsPrevious

\* int3's spread_elements leaves the window, larger or smaller than the input, in order.
Int3SpreadCorrect == procedure = "int3" => A!SpreadCorrect

\* The same for bh07_v2's SpreadWithRewiring.
BH07SpreadCorrect == procedure = "bh07" => V!SpreadCorrect

\* The comment of merge_to_insert on an element appended to the output of bh07_v2.
AppendedIsMaximum == procedure = "bh07" => V!AppendedIsMaximum

\* BTreePMACC7's spread with rewiring merges the window with the user's elements in order,
\* as long as it does not crash.
BulkSpreadCorrect == procedure = "bulk" => L!SpreadCorrect

\* The copy loops of all the procedures end: no run of length zero makes them spin.
Terminates == <>(IF procedure = "in_place" THEN phase = "done" ELSE pc \in {"done", "crashed"})

-----------------------------------------------------------------------------
(* int2, from left to right, for an insertion or a removal: the segments are sparse or   *)
(* full, one may be empty after a removal.                                               *)

SumOver(counts, segments) == Layout(2, 8, 8)!SumOver(counts, segments)
NotSet == Layout(2, 8, 8)!NotSet

Part(card, segments) == [m_cardinality |-> card, m_segments |-> segments]
Fits(card, segments, capacity) == segments <= card /\ card <= segments * capacity

\* What AdaptiveRebalancing makes of eight segments by halving: no segment of a part is
\* left empty or overfull.
Halves(total, capacity) ==
    {<<Part(c, 4), Part(total - c, 4)>> :
        c \in {x \in 1 .. total : Fits(x, 4, capacity) /\ Fits(total - x, 4, capacity)}}
    \union
    {<<Part(c[1], 4), Part(c[2], 1), Part(c[3], 1), Part(total - c[1] - c[2] - c[3], 2)>> :
        c \in {x \in (4 .. 4 * capacity) \X (1 .. capacity) \X (1 .. capacity) :
                  Fits(total - x[1] - x[2] - x[3], 2, capacity)}}

\* The least key of each segment, where the i-th element of the window has the key 2 * i, and
\* the segment where the index sends a key: the last whose least key is not greater.
Firsts(counts, first, last) ==
    LET Before[s \in first .. last] == IF s = first THEN 0 ELSE Before[s - 1] + counts[s - 1]
    IN  [s \in first .. last |-> 2 * (Before[s] + 1)]
SegmentOf(firsts, first, k) ==
    LET below == {s \in DOMAIN firsts : firsts[s] <= k}
    IN  IF below = {} THEN first ELSE CHOOSE s \in below : \A t \in below : t <= s

Case(counts, storage, partitions, segment, key) ==
    [sizes |-> counts, keys |-> storage, partitions |-> partitions, move_backwards |-> FALSE,
     start_position |-> 0, insert_segment |-> segment, insert_key |-> key]

\* Which segments are full: for a skewed window one, two neighbours or two in the two halves,
\* or all but one.
FullSegments ==
    {f \in SUBSET (8 .. 15) : Cardinality(f) \in {1, 7}}
    \union {{s, s + 1} : s \in 8 .. 14} \union {{s, s + 4} : s \in 8 .. 11}
ForwardSizes(full, empty) ==
    [s \in 0 .. 15 |-> IF s \in full THEN 2 ELSE IF s \in empty THEN 0 ELSE 1]
ForwardPartitions(total) ==
    {<<Part(c, 8)>> : c \in {x \in {total} : Fits(x, 8, 2)}} \union Halves(total, 2)

\* A spread with insertion is started by a full segment.
MCForwardCases ==
    UNION {LET counts == ForwardSizes(full, {})
               storage == Layout(2, 8, 8)!InitialKeys(counts)
               firsts == Firsts(counts, 8, 15)
               total == SumOver(counts, 8 .. 15)
           IN  {Case(counts, storage, p, SegmentOf(firsts, 8, k), k) :
                   p \in ForwardPartitions(total + 1),
                   k \in {x \in 1 .. (2 * total + 1) : counts[SegmentOf(firsts, 8, x)] = 2}} :
           full \in FullSegments}
    \union
    UNION {LET counts == ForwardSizes(full, empty)
               storage == Layout(2, 8, 8)!InitialKeys(counts)
           IN  {Case(counts, storage, p, NotSet, NotSet) :
                   p \in ForwardPartitions(SumOver(counts, 8 .. 15))} :
           full \in FullSegments, empty \in {{}} \union {{s} : s \in 8 .. 15}}

-----------------------------------------------------------------------------
(* int2, from right to left: resize_rewire has doubled the storage, which is dense, and  *)
(* moves the elements of the first half, in any arrangement, over the whole of it.       *)

BackwardPartitions(total) ==
    {<<Part(c, 8)>> : c \in {x \in {total} : Fits(x, 8, 4)}}
    \union
    {<<Part(c[1], 1), Part(c[2], 1), Part(c[3], 2), Part(total - c[1] - c[2] - c[3], 4)>> :
        c \in {x \in (1 .. 4) \X (1 .. 4) \X (2 .. 8) : Fits(total - x[1] - x[2] - x[3], 4, 4)}}

MCBackwardCases ==
    UNION {LET counts == [s \in 0 .. 7 |-> IF s < 4 THEN arrangement[s] ELSE 0]
               storage == Layout(4, 0, 8)!InitialKeys(counts)
           IN  {[Case(counts, storage, p, NotSet, NotSet) EXCEPT
                    !.move_backwards = TRUE, !.start_position = 3 * 4 + counts[3]] :
                   p \in BackwardPartitions(SumOver(counts, 0 .. 7))} :
           arrangement \in [0 .. 3 -> 2 .. 4]}

-----------------------------------------------------------------------------
(* int3: the input is in the window, in its first two extents before it was made larger, *)
(* or in four extents that are made three; the new key may be anywhere, also equal to    *)
(* one that is there.                                                                    *)

Arrangements ==
    {a \in UNION {[0 .. (n - 1) -> {1, 3}] : n \in {4, 6, 8}} :
        Cardinality({s \in DOMAIN a : a[s] = 3}) \in 1 .. 2}
Int3Sizes(a) == [s \in 0 .. 7 |-> IF s \in DOMAIN a THEN a[s] ELSE 0]
Int3Keys(counts, firsts) ==
    [p \in 0 .. 23 |->
        LET s == p \div 3
        IN  IF p \in Layout(3, 0, 6)!SegmentSlots(counts, s) THEN firsts[s] + 2 * (p - Layout(3, 0, 6)!SegmentBegin(counts, s))
            ELSE Layout(3, 0, 6)!Stale]

\* The parts of three segments, and of one and two, that AdaptiveRebalancing makes of six.
Int3Partitions(total) ==
    {<<Part(c, 3), Part(total - c, 3)>> :
        c \in {x \in 1 .. total : Fits(x, 3, 3) /\ Fits(total - x, 3, 3)}}
    \union
    {<<Part(c, 2), Part(2, 1), Part(total - c - 2, 3)>> :
        c \in {x \in 1 .. total : Fits(x, 2, 3) /\ Fits(total - x - 2, 3, 3)}}

\* An array is made smaller by a removal, without a new key.
MCInt3Cases ==
    UNION {LET counts == Int3Sizes(a)
               firsts == Firsts(counts, 0, 7)
               storage == Int3Keys(counts, firsts)
               n == Cardinality(DOMAIN a)
               total == SumOver(counts, 0 .. 7)
               within == [s \in DOMAIN a |-> firsts[s]]
               new == {k \in 1 .. (2 * total + 1) : n < 8 /\ a[SegmentOf(within, 0, k)] = 3}
               case_of(partitions, segment, key) ==
                   [Case(counts, storage, partitions, segment, key) EXCEPT
                       !.move_backwards = TRUE, !.start_position = (n - 1) * 3 + a[n - 1]]
           IN  {case_of(p, NotSet, NotSet) : p \in Int3Partitions(total)}
                 \union
               {case_of(p, 0, k) : p \in Int3Partitions(total + 1), k \in new} :
           a \in Arrangements}

-----------------------------------------------------------------------------
(* bh07_v2: insertions into windows with one or two full segments, and resizes of four   *)
(* segments to eight.                                                                    *)

BH07Sizes(full) == [s \in 0 .. 7 |-> IF s \in full THEN 2 ELSE 1]

\* The insertions; inside: of keys not above all those of their segment, unless it is the last.
BH07Inserts(inside) ==
    UNION {LET counts == BH07Sizes(full)
               storage == Layout(2, 0, 8)!InitialKeys(counts)
               firsts == Firsts(counts, 0, 7)
               total == SumOver(counts, 0 .. 7)
               new == {k \in 1 .. (2 * total + 1) :
                          LET s == SegmentOf(firsts, 0, k)
                          IN  counts[s] = 2 /\ (inside => s = 7 \/ k < firsts[s + 1] - 1)}
           IN  {Case(counts, storage, p, SegmentOf(firsts, 0, k), k) : p \in Halves(total + 1, 2), k \in new} :
           full \in {{s, t} : s, t \in {0, 3, 4, 7}}}

MCBH07Inserts == BH07Inserts(FALSE)

MCBH07Cases ==
    BH07Inserts(TRUE)
    \union
    UNION {LET counts == [s \in 0 .. 7 |-> IF s >= 4 THEN 0 ELSE IF s \in sparse THEN 1 ELSE 2]
               storage == Layout(2, 0, 8)!InitialKeys(counts)
           IN  {[Case(counts, storage, p, NotSet, NotSet) EXCEPT
                    !.move_backwards = TRUE, !.start_position = 3 * 2 + counts[3]] :
                   p \in Halves(SumOver(counts, 0 .. 7), 2)} :
           sparse \in SUBSET (0 .. 3)}

-----------------------------------------------------------------------------
(* Bulk: windows of four and six segments with sparse and dense segments, also after an  *)
(* extension; a user's elements below, between and above those of the window, or equal.  *)

MCBulkCalls ==
    {c \in
        [op : {"spread"}, length : {4, 8}, sizes : [1 .. 4 -> {1, 4}], batch : {<<>>}] \union
        [op : {"load"}, length : {4, 6, 8}, sizes : [1 .. 2 -> {1, 4}] \union [1 .. 4 -> {1, 4}],
         batch : {<<1>>, <<2, 3, 3>>, <<1, 1, 1, 1, 1, 1>>, <<3, 5, 7, 9, 11, 13>>,
                  <<99, 99, 99, 99, 99, 99, 99>>, <<1, 5, 6, 21, 22, 99>>}]
     : LET total == SumOver(c.sizes, DOMAIN c.sizes) + Len(c.batch)
       IN  c.length >= Len(c.sizes) /\ Fits(total, c.length, 3)}

(* In place: windows of two, four and eight segments of three slots, each segment full,  *)
(* nearly empty or, one of them, empty.                                                  *)
MCInPlaceWindows ==
    {w \in [0 .. 1 -> 0 .. 3] : w[0] + w[1] > 1} \union [0 .. 3 -> {1, 3}] \union
    {[s \in 0 .. 7 |-> IF s \in full THEN 3 ELSE 1] : full \in SUBSET {0, 1, 3, 5, 6}} \union
    {[s \in 0 .. 7 |-> IF s \in full THEN 2 ELSE 0] : full \in SUBSET {2, 6}}
=============================================================================
