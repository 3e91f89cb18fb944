------------------------ MODULE PackedMemoryArrayInt1 ------------------------
(***************************************************************************)
(* class PackedMemoryArray of pma/adaptive/int1: the first of the adaptive *)
(* arrays, whose index is a StaticABTree, a B+ tree without pointers.      *)
(* Its Detector, Weights and the split of AdaptiveRebalancing are those of *)
(* int2, hence the operators of Weights and AdaptiveSplit; an insertion    *)
(* that resizes the array is made again after it.                          *)
(*                                                                         *)
(* Every update is sampled, as with the default knobs.  The array is given *)
(* values other than -1, for which remove does not rebalance (see          *)
(* PackedMemoryArray): without them it is empty only with one segment.     *)
(***************************************************************************)
EXTENDS Segments

CONSTANTS
    Modulus, MaxSequenceCounter, MaxSegmentCounter,       \* as in Detector
    SegmentThreshold, SequenceThreshold, RankThreshold,   \* as in Weights
    Elements, Keys, Intervals,     \* as in BTreePMACC5
    IndexBlock,                    \* B of StaticABTree
    Starts,                        \* the segments of the array at the beginning
    MaxUpdates                     \* bound on the updates

Int1Assumption == IndexBlock \in Nat \ {0, 1} /\ \A e \in Elements : e[2] # -1

VARIABLES
    pma,           \* m_storage and m_index
    ret,           \* <<op, value>>: the last update and what it returned, or -1
    det            \* m_detector

vars == <<pma, ret, det>>

C5 == INSTANCE BTreePMACC5 WITH Batches <- {}, MaxElements <- 0, PastTheSizes <- {}
AS == INSTANCE AdaptiveSplit
W1 == INSTANCE Weights WITH LargestFound <- SegmentCapacity
R3 == INSTANCE AdaptiveRebalancing3

prefix_sum_cardinalities(sizes) == W1!prefix_sum_cardinalities(sizes)
get_cardinality_upto_excl(sizes, s) == W1!get_cardinality_upto_excl(sizes, s)
find_key(seq, size, key) == W1!find_key(seq, size, key)
fetch_detector_keys(detector, start, length) == W1!fetch_detector_keys(detector, start, length)
partition(A) == W1!partition(A)
rank(A, position) == W1!rank(A, position)
detect_hammered(detector, segs, sizes, start, threshold) ==
    W1!detect_hammered(detector, segs, sizes, start, threshold)
remove_neutral(found, start) == W1!remove_neutral(found, start)
Weights_new(detector, segs, sizes, start) == W1!Weights_new(detector, segs, sizes, start)
move_section(registered, from, to) == W1!move_section(registered, from, to)
move(detector, start, registered) == W1!move(detector, start, registered)

find_split_point(W, balance) == AS!find_split_point(W, balance)
rebalancing_paro(W, index, cardinality) == AS!rebalancing_paro(W, index, cardinality)
rebalancing_sparu(W, index, cardinality) == AS!rebalancing_sparu(W, index, cardinality)
find_optimum(W, balance, cardinality) == AS!find_optimum(W, balance, cardinality)
ensure_lower_threshold(lo, hi, W, opt) == AS!ensure_lower_threshold(lo, hi, W, opt)
ensure_upper_threshold(lo, hi, W, opt) == AS!ensure_upper_threshold(lo, hi, W, opt)

empty(st) == C5!empty(st)

\* Storage and StaticABTree: one segment and no element; or as a resize leaves the array.
alloc_workspace(segs) ==
    [segs |-> segs, card |-> SumSizes(segs, DOMAIN segs),
     seps |-> [s \in DOMAIN segs |-> IF segs[s] = <<>> THEN MinKey ELSE segs[s][1][1]]]

Init ==
    /\ \E segs \in Starts : pma = alloc_workspace(segs) /\ det = W1!Detector_new(Cardinality(DOMAIN segs))
    /\ ret = <<"new", -1>>

-----------------------------------------------------------------------------
\* StaticABTree, for n segments: the separator of segment 0 is m_key_minimum, the others
\* are in m_keys, level by level, the nodes of a level one after the other.
m_height(n) == IF n = 1 THEN 1 ELSE Min({h \in 1 .. n : IndexBlock ^ h >= n})
m_capacity(n) ==
    LET leaves == IndexBlock ^ m_height(n)
    IN  (n * (leaves - 1) + leaves * (IndexBlock - 1) - 1) \div (leaves * (IndexBlock - 1))
m_offset_leaves(n) == IF n <= IndexBlock THEN 0 ELSE m_capacity(n) * IndexBlock - n
m_cardinality_root(n) == IF n = 1 THEN 0 ELSE n \div IndexBlock ^ (m_height(n) - 1) - 1

\* set_pivot and get_pivot: climb from the leaves as long as the segment is the first of a node.
RECURSIVE SlotFrom(_, _, _, _)
SlotFrom(base, capacity_level, offset, depth) ==
    IF offset % IndexBlock # 0 \/ depth = 0 THEN base + offset - 1
    ELSE IF depth = 1 THEN SlotFrom(0, capacity_level, offset \div IndexBlock, 0)
    ELSE SlotFrom(base - capacity_level \div IndexBlock, capacity_level \div IndexBlock,
                  offset \div IndexBlock, depth - 1)
Slot(n, s) ==
    SlotFrom(m_offset_leaves(n), m_capacity(n) * IndexBlock - m_offset_leaves(n), s, m_height(n) - 1)

set_pivot(st, s, key) == set_separator_key(st, s, key)
get_pivot(st, slot) == st.seps[CHOOSE s \in 1 .. (NumSegments(st) - 1) : Slot(NumSegments(st), s) = slot]

\* scan_node_any, scan_node_min and scan_node_max: how many of the first keys of a node lead
\* to the right.  The last one starts from the end of the node.
Passed(st, node, node_sz, passes(_)) ==
    Cardinality({i \in 0 .. (node_sz - 1) : \A j \in 0 .. i : passes(get_pivot(st, node + j))})
scan_node_any(st, node, node_sz, key) == Passed(st, node, node_sz, LAMBDA pivot : pivot <= key)
scan_node_min(st, node, node_sz, key) == Passed(st, node, node_sz, LAMBDA pivot : pivot < key)
scan_node_max(st, node, node_sz, key) ==
    IF key < get_pivot(st, node) THEN 0
    ELSE Max({i \in 0 .. (node_sz - 1) : get_pivot(st, node + i) <= key}) + 1

scan_node(kind, st, node, node_sz, key) ==
    CASE kind = "any" -> scan_node_any(st, node, node_sz, key)
      [] kind = "min" -> scan_node_min(st, node, node_sz, key)
      [] kind = "max" -> scan_node_max(st, node, node_sz, key)

\* Percolate from the root to the leaves: the offset of the node in its level, where the
\* level starts and how many entries it has.
RECURSIVE Percolated(_, _, _, _, _, _, _)
Percolated(kind, st, key, offset, h, base, level_sz) ==
    IF h > m_height(NumSegments(st)) THEN offset
    ELSE Percolated(kind, st, key,
             offset * IndexBlock
                 + scan_node(kind, st, base + offset * IndexBlock, IndexBlock - 1, key),
             h + 1, base + level_sz * IndexBlock, level_sz * IndexBlock)
find_bucket(kind, st, key) ==
    LET root == m_cardinality_root(NumSegments(st))
    IN  Percolated(kind, st, key, scan_node(kind, st, 0, root, key), 2, IndexBlock, root + 1)

find_bucket_any(st, key) == find_bucket("any", st, key)
find_bucket_min(st, key) == find_bucket("min", st, key)
find_bucket_max(st, key) == find_bucket("max", st, key)

-----------------------------------------------------------------------------
\* AdaptiveRebalancing of int1: the window is a power of two, and the bounds of a half are
\* those of its height in the tree that the array will have.
get_density(tree_height, height, capacity) ==
    [min |-> R3!CeilDiv(Rho(tree_height, height) * capacity, Scale(tree_height)),
     max |-> (Theta(tree_height, height) * capacity) \div Scale(tree_height)]

ValidatedIn(size, W, n, opt) ==
    R3!Validated(AS!Max2(n - size.max, size.min), AS!Min2(n - size.min, size.max), W, opt)
validate_thresholds(tree_height, length, W, n, opt) ==
    ValidatedIn(get_density(tree_height, HeightOf(length) - 1, (length * SegmentCapacity) \div 2), W, n, opt)

\* The arguments of the two recursive calls.
Halves(opt, n, length, balance) ==
    <<[length |-> length \div 2, W |-> SubSeq(opt.W, 1, opt.index + 1),
       balance |-> opt.balance, n |-> opt.cardinality],
      [length |-> length \div 2,
       W |-> AS!Shifted(SubSeq(opt.W, opt.index + 2, Len(opt.W)), opt.cardinality),
       balance |-> balance - opt.balance, n |-> n - opt.cardinality]>>

\* recursion: the partitions of a part and the sections to move.
RECURSIVE recursion(_, _, _, _, _, _)
Recursed(tree_height, part_start, halves) ==
    R3!Joined(recursion(tree_height, part_start, halves[1].length, halves[1].W, halves[1].balance, halves[1].n),
              recursion(tree_height, part_start + halves[1].length, halves[2].length,
                        halves[2].W, halves[2].balance, halves[2].n))
recursion(tree_height, part_start, length, W, balance, n) ==
    IF length = 1
    THEN R3!emit(n, 1, IF W = <<>> THEN <<>> ELSE R3!Registered(W[1].m_associated_segment, part_start))
    ELSE IF W = <<>> \/ (length = 2 /\ Len(W) = 1 /\ W[1].m_length = SegmentCapacity)
    THEN R3!emit(n, length, <<>>)
    ELSE Recursed(tree_height, part_start,
             Halves(validate_thresholds(tree_height, length, W, n, find_optimum(W, balance, n)),
                    n, length, balance))

-----------------------------------------------------------------------------
\* spread_insert_unsafe and spread_load: the new element goes into its pair of segments,
\* before those with its key.
spread_insert_unsafe(elements, e) == InsertBefore(elements, e)
spread_load(st, start, length, s, new) == C5!Compacted(st, start, length, 2 * (s \div 2), new)

\* The position among the elements of the window at which spread_load has put the new one.
position_key_inserted(st, start, s, e) ==
    LET pair == 2 * (s \div 2)
    IN  Len(Window(st.segs, start, pair - start)) + PositionBefore(Window(st.segs, pair, 2), e[1])

Predecessor(seq, i) == IF i > 1 THEN seq[i - 1][1] ELSE MinKey
Successor(seq, i) == IF i < Len(seq) THEN seq[i + 1][1] ELSE MaxKey

\* spread_create_detector_record, and what spread_save makes of it: the insertion is recorded
\* in the segment that position i falls into.
SegmentOf(sizes, i) == Min({s \in DOMAIN sizes : i <= prefix_sum_cardinalities(sizes)[s]})
spread_create_detector_record(detector, elements, i, start, sizes) ==
    W1!Detector_insert(detector, start + SegmentOf(sizes, i), Predecessor(elements, i), Successor(elements, i))

\* spread_save: the segments of the window and their pivots.
spread_save(st, start, elements, sizes, added) ==
    C5!WithSegments(st, start, Dealt(elements, sizes), added)

\* spread_evenly and spread_unevenly, which is told the partitions: the detector is cleared
\* when the window is the whole array.
spread_unevenly(st, detector, start, length, s, new, sizes) ==
    LET elements == spread_load(st, start, length, s, new)
        recorded == IF new = <<>> THEN detector
                    ELSE spread_create_detector_record(detector, elements,
                             position_key_inserted(st, start, s, new[1]), start, sizes)
    IN  [st |-> spread_save(st, start, elements, sizes, Len(new)),
         det |-> IF length = NumSegments(st) THEN W1!Detector_clear(recorded) ELSE recorded]
spread_evenly(st, detector, start, length, s, new, n) ==
    spread_unevenly(st, detector, start, length, s, new, EvenSizes(length, n))

\* resize: twice the segments or half of them, filled as the partitions say.
resize(st, detector, sizes) ==
    [st |-> C5!NewArray(Dealt(Content(st), sizes), st.card),
     det |-> W1!Detector_resize(detector, Cardinality(DOMAIN sizes))]

\* The sizes of the segments of the window, the element to insert counted in when the window
\* is spread.
PretendedSizes(st, start, length, s, new) ==
    [i \in 0 .. (length - 1) |-> Len(st.segs[start + i]) + IF start + i = s THEN Len(new) ELSE 0]

\* The window is balanced: with nothing hammered it is spread evenly; else MoveDetectorInfo,
\* which is not given a window of the whole array, moves the sections after the spread.
MovedAfter(spreaded, start, moves, whole) ==
    [spreaded EXCEPT !.det = IF whole THEN @ ELSE move(@, start, moves)]
SpreadAs(st, detector, start, length, s, new, result) ==
    MovedAfter(spread_unevenly(st, detector, start, length, s, new, R3!PartitionSizes(result.partitions)),
               start, result.moves, length = NumSegments(st))
Spread(st, start, length, s, new, weights, n) ==
    IF weights.output = <<>> THEN spread_evenly(st, weights.det, start, length, s, new, n)
    ELSE SpreadAs(st, weights.det, start, length, s, new,
                  recursion(Height(st), 0, length, weights.output, weights.balance, n))

\* The array is too dense or too sparse: the partitions are those of the new array, and of
\* the elements it has already.
Resize(st, weights, length) ==
    resize(st, weights.det, R3!PartitionSizes(
        recursion(HeightOf(length), 0, length, weights.output, weights.balance, st.card).partitions))

\* rebalance: climb the calibrator tree, find what is hammered, then spread or resize.
RebalanceAt(st, detector, s, new, height) ==
    LET start == WindowStart(s, height)
        length == WindowLength(height)
        spreads == C5!Balanced(st, s, height, new)
        sizes == PretendedSizes(st, start, length, s, IF spreads THEN new ELSE <<>>)
        weights == Weights_new(detector, st.segs, sizes, start)
    IN  IF spreads THEN Spread(st, start, length, s, new, weights, C5!num_elements(st, s, height, new))
        ELSE Resize(st, weights, C5!NewLength(st, new))
rebalance(st, detector, s, new) == RebalanceAt(st, detector, s, new, C5!WindowHeight(st, s, new))

-----------------------------------------------------------------------------
insert_empty(st, e) == C5!insert_empty(st, e)

\* storage_insert_unsafe0: before the elements with the key in an even segment and after them
\* in an odd one; the insertion is recorded.
InsertedAt(st, detector, s, e, i) ==
    LET new == InsertAt(st.segs[s], i, e)
    IN  [st |-> IF i = 1 THEN set_pivot([st EXCEPT !.segs[s] = new, !.card = @ + 1], s, e[1])
                ELSE [st EXCEPT !.segs[s] = new, !.card = @ + 1],
         det |-> W1!Detector_insert(detector, s, Predecessor(new, i), Successor(new, i))]
storage_insert_unsafe(st, detector, s, e) ==
    InsertedAt(st, detector, s, e, IF s % 2 = 0 THEN PositionBefore(st.segs[s], e[1])
                                   ELSE PositionAfter(st.segs[s], e[1]))

\* Mutant: the insertion is not made again after a resize.
InsertedOnce(st, detector, e) ==
    LET s == find_bucket_any(st, e[1])
    IN  IF Len(st.segs[s]) < SegmentCapacity THEN storage_insert_unsafe(st, detector, s, e)
        ELSE rebalance(st, detector, s, <<e>>)

\* insert_common: a rebalance that resizes the array has not inserted the element, which is
\* then inserted from the beginning.
RECURSIVE insert_common(_, _, _)
Again(e, before, after) == IF after.st.card > before.card THEN after ELSE insert_common(after.st, after.det, e)
insert_common(st, detector, e) ==
    LET s == find_bucket_any(st, e[1])
    IN  IF Len(st.segs[s]) < SegmentCapacity THEN storage_insert_unsafe(st, detector, s, e)
        ELSE Again(e, st, rebalance(st, detector, s, <<e>>))

\* (The set of one member makes TLC evaluate the result once.)
insert(e) ==
    /\ det.m_counter < MaxUpdates
    /\ \/ empty(pma) /\ pma' = insert_empty(pma, e) /\ UNCHANGED det
       \/ /\ ~ empty(pma)
          /\ \E result \in {insert_common(pma, det, e)} : pma' = result.st /\ det' = result.det
    /\ ret' = <<"insert", -1>>

\* The pivot after the removal of the element at position i; that of a segment left empty
\* stays, as it is going to be rebalanced.
PivotWithout(st, s, i) ==
    IF st.card = 1 THEN MinKey
    ELSE IF i = 1 /\ Len(st.segs[s]) > 1 THEN st.segs[s][2][1] ELSE st.seps[s]
Without(st, s, i) ==
    [set_pivot(st, s, PivotWithout(st, s, i)) EXCEPT !.segs[s] = RemoveAt(@, i), !.card = @ - 1]

minimum_size(st) == C5!minimum_size(st)
Removed(s, i) ==
    [st |-> Without(pma, s, i),
     det |-> W1!Detector_remove(det, s, Predecessor(pma.segs[s], i), Successor(pma.segs[s], i))]
TooSmall(st, s) == NumSegments(st) > 1 /\ Len(st.segs[s]) < minimum_size(st)

\* remove: the segment is rebalanced when it became too small.
RemoveAtPosition(s, i) ==
    \/ /\ i = 0
       /\ ret' = <<"remove", -1>> /\ UNCHANGED <<pma, det>>
    \/ /\ i # 0
       /\ ret' = <<"remove", pma.segs[s][i][2]>>
       /\ \E removed \in {Removed(s, i)} :
            \/ /\ ~ TooSmall(removed.st, s)
               /\ pma' = removed.st /\ det' = removed.det
            \/ /\ TooSmall(removed.st, s)
               /\ \E result \in {rebalance(removed.st, removed.det, s, <<>>)} :
                     pma' = result.st /\ det' = result.det
RemoveFrom(s, key) == RemoveAtPosition(s, IF empty(pma) THEN 0 ELSE FirstWith(pma.segs[s], key))
remove(key) == det.m_counter < MaxUpdates /\ RemoveFrom(find_bucket_any(pma, key), key)

Next ==
    \/ \E e \in Elements : insert(e)
    \/ \E key \in Keys : remove(key)

Spec == Init /\ [][Next]_vars

-----------------------------------------------------------------------------
find(st, key) ==
    LET s == find_bucket_any(st, key)
        i == FirstWith(st.segs[s], key)
    IN  IF empty(st) \/ i = 0 THEN -1 ELSE st.segs[s][i][2]

Iterator(st, interval) ==
    ScannedBetween(st, find_bucket_min(st, interval[1]), find_bucket_max(st, interval[2]),
                   interval[1], interval[2])
do_sum(st, interval) ==
    SumOf(IF \/ interval[1] > interval[2] \/ empty(st)
             \/ find_bucket_max(st, interval[2]) < find_bucket_min(st, interval[1])
          THEN <<>> ELSE Iterator(st, interval))

\* With one segment the root of the index has no keys, and scan_node_max reads what is
\* before it in memory: the scans are of arrays with more segments.
Scannable == IF NumSegments(pma) = 1 THEN {} ELSE Intervals
Reads ==
    [found |-> [key \in Keys |-> find(pma, key)],
     visited |-> [interval \in {i \in Scannable : i[1] <= i[2]} |-> Iterator(pma, interval)],
     sum |-> [interval \in Scannable |-> do_sum(pma, interval)]]
Map == INSTANCE OrderedCollection WITH
           content <- BagOf(Content(pma)), reads <- Reads, Batches <- {}

\* Whatever the detector has seen, and though a resize may fill segments that the insertion
\* made again has to rebalance at once, the array is the collection of pma/interface.hpp,
\* and the index leads every read to the elements.
ImplementsMap == Map!Spec
=============================================================================
