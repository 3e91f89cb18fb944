--------------------------- MODULE HammeredSegments ---------------------------
(***************************************************************************)
(* The adaptive strategy of the int2 array at work: the updates recorded   *)
(* by the Detector, the intervals that Weights derives from them when a    *)
(* window is rebalanced, the partitions that AdaptiveRebalancing makes of  *)
(* these, the spread, and the sections of the detector that the destructor *)
(* of MoveDetectorInfo moves after it.                                     *)
(*                                                                         *)
(* The number of segments is fixed: a resize starts from a detector with   *)
(* no sections (Detector::resize), which is the initial state here, and an *)
(* update that calls for one is not enabled.  Every update is sampled, and *)
(* windows are smaller than an extent, hence spread without rewiring.      *)
(***************************************************************************)
EXTENDS Weights

CONSTANTS
    Loaded,        \* the elements of each segment at the beginning
    Elements,      \* the elements a client may insert
    Removable,     \* the keys a client may remove
    NumHeight,     \* the height of the calibrator tree over these segments
    MaxUpdates     \* bound on the updates

VARIABLES
    pma,           \* the array, a record of Segments
    det,           \* m_detector
    call,          \* the update being made, or the last one made
    case, frames, m_partitions, moved   \* of AdaptiveRebalancing

vars == <<pma, det, call, case, frames, m_partitions, moved>>

AR == INSTANCE AdaptiveRebalancing WITH TreeHeight <- NumHeight, Cases <- {}

None == [op |-> "none"]
NoWindow == [length |-> 0, cardinality |-> 0, weights |-> <<>>, balance |-> 0]

Init ==
    /\ pma = [segs |-> Loaded, seps |-> FirstKeys(Loaded), card |-> SumSizes(Loaded, DOMAIN Loaded)]
    /\ det = Detector_new(Cardinality(DOMAIN Loaded))
    /\ call = None
    /\ case = NoWindow /\ frames = <<>> /\ m_partitions = <<>> /\ moved = <<>>

AdaptiveUnchanged == UNCHANGED <<case, frames, m_partitions, moved>>

Returned == call.op \in {"none", "inserted", "removed"}
Bounded == det.m_counter < MaxUpdates

\* The keys before and after a position, MIN and MAX at the ends.
Predecessor(seq, i) == IF i > 1 THEN seq[i - 1][1] ELSE MinKey
Successor(seq, i) == IF i < Len(seq) THEN seq[i + 1][1] ELSE MaxKey

-----------------------------------------------------------------------------
\* storage_insert_unsafe: there is room in the segment.
storage_insert_unsafe(e) ==
    LET s == index_find(pma, e[1])
        seq == pma.segs[s]
        i == IF s % 2 = 0 THEN PositionBefore(seq, e[1]) ELSE PositionAfter(seq, e[1])
        new == InsertAt(seq, i, e)
    IN  /\ Returned /\ Bounded
        /\ e \notin Range(Content(pma))
        /\ Len(seq) < SegmentCapacity
        /\ pma' = [pma EXCEPT !.segs[s] = new, !.card = @ + 1,
                              !.seps[s] = IF i = 1 THEN e[1] ELSE @]
        /\ det' = Detector_insert(det, s, Predecessor(new, i), Successor(new, i))
        /\ call' = [op |-> "inserted", element |-> e, cleared |-> FALSE]
        /\ AdaptiveUnchanged

\* The climb through the calibrator tree: the least window from two segments on that is
\* balanced with the update made, the whole array when none is.
Elements_after(s, height, inserted) == SumSizes(pma.segs, WindowOf(s, height)) + inserted
Balanced(s, height, inserted) ==
    IF inserted = 1 THEN NotAbove(NumHeight, height, Elements_after(s, height, 1))
    ELSE NotBelow(NumHeight, height, Elements_after(s, height, 0))
BalancedHeights(s, inserted) == {h \in 2 .. NumHeight : Balanced(s, h, inserted)}

\* The sizes of the segments of the window, the element to insert counted in.
PretendedSizes(s, start, length, inserted) ==
    [i \in 0 .. (length - 1) |-> Len(pma.segs[start + i]) + IF start + i = s THEN inserted ELSE 0]

\* Hand the window over to AdaptiveRebalancing; nothing to adapt to is one partition.
Adapt(s, height, inserted, weights) ==
    LET whole == [length |-> WindowLength(height), cardinality |-> Elements_after(s, height, inserted),
                  weights |-> weights.output, balance |-> weights.balance]
    IN  /\ case' = whole
        /\ frames' = IF weights.output = <<>> THEN <<>>
                     ELSE <<[start |-> 0, length |-> whole.length, W |-> whole.weights,
                             balance |-> whole.balance, cardinality |-> whole.cardinality]>>
        /\ m_partitions' = IF weights.output = <<>>
                           THEN <<[m_cardinality |-> whole.cardinality, m_segments |-> whole.length]>>
                           ELSE <<>>
        /\ moved' = <<>>

\* rebalance, up to the constructor of AdaptiveRebalancing, in a window that is balanced.
rebalance(s, inserted, detector, kind) ==
    /\ BalancedHeights(s, inserted) # {}
    /\ LET height == Min(BalancedHeights(s, inserted))
           start == WindowStart(s, height)
       IN  \E weights \in {Weights_new(detector, pma.segs,
                              PretendedSizes(s, start, WindowLength(height), inserted), start)} :
              /\ Adapt(s, height, inserted, weights)
              /\ det' = weights.det
              /\ call' = kind @@ [start |-> start, segment |-> s]

\* insert_common, into a segment that is full.
InsertRebalances(e) ==
    LET s == index_find(pma, e[1])
    IN  /\ Returned /\ Bounded
        /\ e \notin Range(Content(pma))
        /\ Len(pma.segs[s]) = SegmentCapacity
        /\ rebalance(s, 1, det, [op |-> "insert", element |-> e])
        /\ UNCHANGED pma

minimum_size == Max({1, (Rho(NumHeight, 1) * SegmentCapacity) \div Scale(NumHeight)})

\* remove(key): the element is taken out and recorded, and the segment rebalanced when
\* it is too sparse.  An even segment left empty has the separator that follows it.
Removed(s, i) ==
    LET new == RemoveAt(pma.segs[s], i)
    IN  [pma EXCEPT !.segs[s] = new, !.card = @ - 1,
                    !.seps[s] = IF i > 1 THEN @
                                ELSE IF new # <<>> THEN new[1][1]
                                ELSE IF s % 2 = 1 THEN @ ELSE pma.seps[s + 1]]

remove(key) ==
    LET s == index_find(pma, key)
        i == FirstWith(pma.segs[s], key)
        seq == pma.segs[s]
    IN  /\ Returned /\ Bounded
        /\ i # 0
        /\ Len(seq) - 1 >= minimum_size
        /\ pma' = Removed(s, i)
        /\ det' = Detector_remove(det, s, Predecessor(seq, i), Successor(seq, i))
        /\ call' = [op |-> "removed"]
        /\ AdaptiveUnchanged

RemoveSparse(key) ==
    LET s == index_find(pma, key)
        i == FirstWith(pma.segs[s], key)
        seq == pma.segs[s]
    IN  /\ Returned /\ Bounded
        /\ i # 0
        /\ Len(seq) - 1 < minimum_size
        /\ pma' = Removed(s, i)
        /\ det' = Detector_remove(det, s, Predecessor(seq, i), Successor(seq, i))
        /\ call' = [op |-> "sparse", segment |-> s]
        /\ AdaptiveUnchanged

RemoveRebalances ==
    /\ call.op = "sparse"
    /\ rebalance(call.segment, 0, det, [op |-> "remove"])
    /\ UNCHANGED pma

\* The recursion of AdaptiveRebalancing.
Recursion ==
    /\ AR!EmitSegment \/ AR!EmitEvenly \/ AR!Split
    /\ UNCHANGED <<pma, det, call>>

-----------------------------------------------------------------------------
\* The sizes of the segments that the partitions give.
PartitionSizes(partitions) ==
    LET Sizes[i \in 0 .. Len(partitions)] ==
            IF i = 0 THEN <<>>
            ELSE LET even == EvenSizes(partitions[i].m_segments, partitions[i].m_cardinality)
                 IN  Sizes[i - 1] \o [j \in 1 .. partitions[i].m_segments |-> even[j - 1]]
        all == Sizes[Len(partitions)]
    IN  [s \in 0 .. (Len(all) - 1) |-> all[s + 1]]

\* The destructor of MoveDetectorInfo; nothing is registered when the window is the array.
MoveRegistered(detector, start, whole) == IF whole THEN detector ELSE move(detector, start, moved)

\* spread_evenly and spread_unevenly: the elements of the window with the new one, which
\* spread_save records where it puts it; then the detector is cleared when the window is
\* the whole array, and else the destructor of MoveDetectorInfo runs.
Spread ==
    LET start == call.start
        length == case.length
        whole == length = NumSegments(pma)
        loaded == Window(pma.segs, start, length)
        i == PositionBefore(loaded, call.element[1])
        new == IF call.op = "insert" THEN InsertAt(loaded, i, call.element) ELSE loaded
        dealt == Dealt(new, PartitionSizes(m_partitions))
        s == start + CHOOSE j \in DOMAIN dealt : call.element \in Range(dealt[j])
        recorded == IF call.op = "insert"
                    THEN Detector_insert(det, s, Predecessor(new, i), Successor(new, i)) ELSE det
    IN  /\ call.op \in {"insert", "remove"}
        /\ frames = <<>>
        /\ pma' = [segs |-> Replaced(pma.segs, start, dealt),
                   seps |-> Replaced(pma.seps, start, FirstKeys(dealt)),
                   card |-> IF call.op = "insert" THEN pma.card + 1 ELSE pma.card]
        /\ det' = MoveRegistered(IF whole THEN Detector_clear(recorded) ELSE recorded, start, whole)
        /\ call' = IF call.op = "insert"
                   THEN [op |-> "inserted", element |-> call.element, cleared |-> whole]
                   ELSE [op |-> "removed"]
        /\ case' = NoWindow /\ m_partitions' = <<>> /\ moved' = <<>>
        /\ UNCHANGED frames

Next ==
    \/ \E e \in Elements : storage_insert_unsafe(e) \/ InsertRebalances(e)
    \/ \E key \in Removable : remove(key) \/ RemoveSparse(key)
    \/ RemoveRebalances
    \/ Recursion
    \/ Spread

Spec == Init /\ [][Next]_vars
-----------------------------------------------------------------------------
\* What Weights hands to AdaptiveRebalancing: intervals in order that do not meet, none of
\* them empty or past the elements of the window, of distinct segments, and a balance that
\* is the sum of their weights.  find_split_point and the thresholds rely on each of these.
IntervalsWellFormed ==
    LET W == case.weights
        Balance[n \in 0 .. Len(W)] == IF n = 0 THEN 0 ELSE Balance[n - 1] + W[n].m_weight
    IN  /\ \A n \in DOMAIN W : /\ 0 <= W[n].m_start /\ W[n].m_length > 0 /\ W[n].m_weight \in {-1, 1}
                               /\ W[n].m_start + W[n].m_length <= case.cardinality
        /\ \A n \in 1 .. (Len(W) - 1) :
              /\ W[n].m_start + W[n].m_length < W[n + 1].m_start
              /\ W[n].m_associated_segment < W[n + 1].m_associated_segment
        /\ case.balance = Balance[Len(W)]

\* The head of the ring of a section is at its oldest timestamp, which Weights compares
\* with the threshold: also in the sections that were cleared, moved and updated again.
OldestAtHead ==
    \A s \in DOMAIN det.sections :
        LET section == det.sections[s]
        IN  \A h \in DOMAIN section.timestamps :
                section.timestamps[section.head] <= section.timestamps[h]

\* The threshold that rank selects from the timestamps of the array is the one that so
\* many of them are below, whatever order the rings hold them in.
SelectsTheNewest ==
    LET timestamps == fetch_detector_keys(det, 0, NumSegments(pma))
        n == Len(timestamps)
        before == Min({(RankThreshold * n) \div 100, Max({0, n - Modulus})})
    IN  n > 0 => Cardinality({i \in DOMAIN timestamps : timestamps[i] < select_threshold(timestamps)}) = before

\* The partitions made from real intervals fit their segments and leave none empty.
PartitionsFit == AR!PartitionsFit

\* What the detector hands over is sound: the threshold is the rank asked for, and the head
\* of every ring that it is compared with is the oldest timestamp there.
DetectorSound == OldestAtHead /\ SelectsTheNewest

\* What the rebalancing makes of it is sound: intervals that do not meet, and partitions of
\* the window that fit its segments.
RebalancingSound == IntervalsWellFormed /\ PartitionsFit

\* Detector::insert is to "Record an insertion in the given segment": after an insertion,
\* unless the detector was cleared since, the segment that holds the element has the
\* newest timestamp.
InsertionIsRecorded ==
    call.op = "inserted" /\ ~ call.cleared =>
        \E s \in DOMAIN pma.segs :
            /\ call.element \in Range(pma.segs[s])
            /\ det.m_counter \in Range(det.sections[s].timestamps)

\* The counters of a section do not leave the range of "the maximum value for the counter
\* for the predictor/detector in the bwd/fwd states".
CountersWithinMaximum ==
    \A s \in DOMAIN det.sections :
        /\ det.sections[s].count_fwd \in (-MaxSequenceCounter) .. MaxSequenceCounter
        /\ det.sections[s].count_bwd \in (-MaxSequenceCounter) .. MaxSequenceCounter
=============================================================================
