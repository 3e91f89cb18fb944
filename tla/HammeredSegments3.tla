-------------------------- MODULE HammeredSegments3 --------------------------
(***************************************************************************)
(* The int3 array with its Detector and Weights (their classes are those   *)
(* of int2, hence the operators of Weights): every update is recorded, and *)
(* a rebalance adapts to what was.  Here the sections of the detector are  *)
(* moved before the elements are, at the end of rebalance_run_apma.        *)
(*                                                                         *)
(* The array starts as a resize leaves it, with a detector of no sections, *)
(* and an update that calls for another resize is not enabled; windows are *)
(* smaller than an extent.                                                 *)
(***************************************************************************)
EXTENDS PackedMemoryArrayInt3

CONSTANTS
    Modulus, MaxSequenceCounter, MaxSegmentCounter,       \* as in Detector
    SegmentThreshold, SequenceThreshold, RankThreshold,   \* as in Weights
    Loaded,        \* the elements of each segment at the beginning
    MaxUpdates     \* bound on the updates

VARIABLES
    det,           \* m_detector
    call           \* the last update: its element and, of a rebalance, what was moved

W3 == INSTANCE Weights WITH LargestFound <- SegmentCapacity + 1

prefix_sum_cardinalities(sizes) == W3!prefix_sum_cardinalities(sizes)
get_cardinality_upto_excl(sizes, s) == W3!get_cardinality_upto_excl(sizes, s)
find_position(seq, size, key) == W3!find_key(seq, size, key)
fetch_detector_keys(detector, start, length) == W3!fetch_detector_keys(detector, start, length)
partition(A) == W3!partition(A)
rank(A, position) == W3!rank(A, position)
select_threshold(timestamps) == W3!select_threshold(timestamps)
WeightOf(section, threshold) == W3!WeightOf(section, threshold)
Hammered(section, weight, seq, sizes, i) == W3!Hammered(section, weight, seq, sizes, i)
Clipped(interval, total) == W3!Clipped(interval, total)
Merged(found, interval, weight, start, i) == W3!Merged(found, interval, weight, start, i)
detect_hammered(detector, segs, sizes, start, threshold) ==
    W3!detect_hammered(detector, segs, sizes, start, threshold)
remove_neutral(found, start) == W3!remove_neutral(found, start)
Weights_new(detector, segs, sizes, start) == W3!Weights_new(detector, segs, sizes, start)
move_section(registered, from, to) == W3!move_section(registered, from, to)
move(detector, start, registered) == W3!move(detector, start, registered)

all == <<vars, det, call>>

NoCall == [op |-> "none", moves |-> <<>>]

HammeredInit ==
    /\ pma = [segs |-> Loaded, seps |-> FirstKeys(Loaded), card |-> SumSizes(Loaded, DOMAIN Loaded)]
    /\ ret = <<"new", -1>>
    /\ apma = [partitions |-> <<>>, moves |-> <<>>, asserted |-> TRUE]
    /\ det = W3!Detector_new(Cardinality(DOMAIN Loaded))
    /\ call = NoCall

Predecessor(seq, i) == IF i > 1 THEN seq[i - 1][1] ELSE MinKey
Successor(seq, i) == IF i < Len(seq) THEN seq[i + 1][1] ELSE MaxKey

\* insert_common, into a segment with room.
insert_local(e) ==
    LET s == index_find(pma, e[1])
        i == IF s % 2 = 0 THEN PositionBefore(pma.segs[s], e[1]) ELSE PositionAfter(pma.segs[s], e[1])
        new == InsertAt(pma.segs[s], i, e)
    IN  /\ det.m_counter < MaxUpdates
        /\ e \notin Range(Content(pma))
        /\ Len(pma.segs[s]) < SegmentCapacity
        /\ pma' = P8!C7!C5!InsertInto(pma, s, e)
        /\ det' = W3!Detector_insert(det, s, Predecessor(new, i), Successor(new, i))
        /\ call' = [op |-> "insert", element |-> e, cleared |-> FALSE, moves |-> <<>>]
        /\ ret' = <<"insert", -1>>
        /\ UNCHANGED apma

\* The sizes of the segments of the window, the element to insert counted in.
PretendedSizes(st, plan, s, new) ==
    [i \in 0 .. (plan.length - 1) |->
        Len(st.segs[plan.start + i]) + IF plan.start + i = s THEN Len(new) ELSE 0]

\* spread_create_detector_record and the position of the new element, in the segment the
\* spread puts it.
spread_create_detector_record(detector, elements, e, start, partitions) ==
    LET i == CHOOSE j \in DOMAIN elements : elements[j] = e
        dealt == Dealt(elements, PartitionSizes(partitions))
        s == CHOOSE j \in DOMAIN dealt : e \in Range(dealt[j])
    IN  W3!Detector_insert(detector, start + s, Predecessor(elements, i), Successor(elements, i))

\* Mutant: the sections are moved after the spread has recorded the insertion.
MovedLast(detector, moves, elements, new, start, partitions) ==
    move(IF new = <<>> THEN detector
         ELSE spread_create_detector_record(detector, elements, new[1], start, partitions), start, moves)

\* The detector after rebalance_run_apma, which moves the sections, and after the spread.
Recorded(detector, moves, elements, new, start, partitions) ==
    LET moved == move(detector, start, moves)
    IN  IF new = <<>> THEN moved
        ELSE spread_create_detector_record(moved, elements, new[1], start, partitions)

\* A rebalance of a window smaller than an extent; the detector is cleared when the window
\* is the array.
Adapt(st, detector, plan, s, new, done) ==
    \E weights \in {Weights_new(detector, st.segs, PretendedSizes(st, plan, s, new), plan.start)} :
    \E result \in {recursion(set_thresholds(NumSegments(st)).bounds, set_thresholds(NumSegments(st)).height,
                             0, plan.length, weights.output, weights.balance,
                             cardinality_after(st, plan, new))} :
        LET elements == spread_load(st, plan.start, plan.length, s, new)
            after == Recorded(weights.det, result.moves, elements, new, plan.start, result.partitions)
            whole == plan.length = NumSegments(st)
        IN  /\ apma' = result
            /\ pma' = spread_local(st, plan, result.partitions, s, new)
            /\ det' = IF whole THEN W3!Detector_clear(after) ELSE after
            /\ call' = done @@ [cleared |-> whole, moves |-> result.moves, start |-> plan.start,
                                before |-> weights.det, after |-> move(weights.det, plan.start, result.moves)]

insert_rebalance(e) ==
    LET s == index_find(pma, e[1])
        window == rebalance_find_window(pma, s, <<e>>)
    IN  /\ det.m_counter < MaxUpdates
        /\ e \notin Range(Content(pma))
        /\ Len(pma.segs[s]) = SegmentCapacity
        /\ ~ window.resize
        /\ Adapt(pma, det, rebalance_plan(pma, window, <<e>>, FALSE), s, <<e>>, [op |-> "insert", element |-> e])
        /\ ret' = <<"insert", -1>>

\* remove of a key that is there, without a rebalance and with one.
remove_key(key) ==
    LET s == index_find(pma, key)
        i == FirstWith(pma.segs[s], key)
        seq == pma.segs[s]
        removed == [set_separator_key(pma, s, P8!C7!C5!SeparatorWithout(pma, s, i))
                        EXCEPT !.segs[s] = RemoveAt(@, i), !.card = @ - 1]
        recorded == W3!Detector_remove(det, s, Predecessor(seq, i), Successor(seq, i))
        window == rebalance_find_window(removed, s, <<>>)
    IN  /\ det.m_counter < MaxUpdates
        /\ i # 0
        /\ ret' = <<"remove", seq[i][2]>>
        /\ \/ /\ Len(seq) - 1 >= minimum_size(removed)
              /\ pma' = removed /\ det' = recorded
              /\ call' = [op |-> "remove", moves |-> <<>>]
              /\ UNCHANGED apma
           \/ /\ Len(seq) - 1 < minimum_size(removed)
              /\ ~ window.resize
              /\ Adapt(removed, recorded, rebalance_plan(removed, window, <<>>, FALSE), s, <<>>, [op |-> "remove"])

HammeredNext ==
    \/ \E e \in Elements : insert_local(e) \/ insert_rebalance(e)
    \/ \E key \in Keys : remove_key(key)

HammeredSpec == HammeredInit /\ [][HammeredNext]_all

-----------------------------------------------------------------------------
\* After an insertion the segment that holds the element has the newest timestamp, unless
\* the detector was cleared since: where int2 moves the sections over what the spread has
\* just recorded, int3 moves them first.
InsertionIsRecorded ==
    call.op = "insert" /\ ~ call.cleared =>
        \E s \in DOMAIN pma.segs :
            /\ call.element \in Range(pma.segs[s])
            /\ det.m_counter \in Range(det.sections[s].timestamps)

\* rebalance_run_apma makes room to "move up to 2 * |weights| info": a section that is
\* registered arrives, at both segments of a pair when it is registered for both.
MovesArrive ==
    \A i \in DOMAIN call.moves :
        call.after.sections[call.start + call.moves[i][2]] = call.before.sections[call.start + call.moves[i][1]]
=============================================================================
