------------------------------- MODULE Weights -------------------------------
(***************************************************************************)
(* class Detector (pma/adaptive/int1/detector.cpp), which the arrays int1, *)
(* int2 and int3 share: for each segment, how often it was updated lately  *)
(* and around which key; class MoveDetectorInfo (int2), which moves these  *)
(* sections when the elements they are about are moved; and class Weights  *)
(* (pma/adaptive/int2/weights.cpp): the hammered intervals of a window,    *)
(* from what the detector has recorded of its segments.                    *)
(*                                                                         *)
(* A section is a record of the three counters of 16 bits, the two keys    *)
(* and the ring of the last timestamps; all of it is 0 when cleared.  For  *)
(* the weights, segments are numbered from the start of the window; sizes  *)
(* gives their cardinalities, the element being inserted counted in.       *)
(* find_key(s, key) of the array is an operator of segs, the elements of   *)
(* each segment.                                                           *)
(***************************************************************************)
EXTENDS Segments

CONSTANTS
    Modulus,               \* m_modulus: the timestamps kept for a segment
    MaxSequenceCounter,    \* get_max_sequence_counter()
    MaxSegmentCounter,     \* get_max_segment_counter()
    SegmentThreshold, SequenceThreshold,   \* of the same names in Knobs
    RankThreshold,                         \* get_rank_threshold(), in hundredths: 99
    LargestFound                           \* the greatest position find_key gives: int1 stops at
                                           \* the capacity, int2 and int3 count the element inserted

DetectorAssumption ==
    /\ Modulus \in Nat \ {0}
    /\ MaxSequenceCounter \in 1 .. 255 /\ MaxSegmentCounter \in 1 .. 255

NoSection ==
    [head |-> 0, count_fwd |-> 0, count_bwd |-> 0, count_segment |-> 0,
     key_fwd |-> 0, key_bwd |-> 0, timestamps |-> [h \in 0 .. (Modulus - 1) |-> 0]]

\* Detector, and resize, which keeps the counter of the timestamps.
Detector_new(size) == [m_counter |-> 0, sections |-> [s \in 0 .. (size - 1) |-> NoSection]]
Detector_resize(det, size) == [det EXCEPT !.sections = [s \in 0 .. (size - 1) |-> NoSection]]

\* clear, of all the segments or of one.
Detector_clear(det) == [det EXCEPT !.sections = [s \in DOMAIN @ |-> NoSection]]
Detector_clear_segment(det, s) == [det EXCEPT !.sections[s] = NoSection]

Int16(n) == ((n + 2 ^ 15) % (2 ^ 16)) - 2 ^ 15

\* The counter of the updates of a segment: one step away from 0 up to its maximum, two
\* steps when the kind of update changes.
SegmentCounter(count, increment) ==
    IF count * increment < 0 THEN count + 2 * increment
    ELSE IF count * increment < MaxSegmentCounter THEN count + increment ELSE count

\* A counter of a sequence, for an update at the key it is about, and for another one.
Matched(count, increment) ==
    IF (increment > 0 /\ count < MaxSequenceCounter) \/ (increment < 0 /\ count > -MaxSequenceCounter)
    THEN count + increment ELSE count
Unmatched(count, increment) == IF count = 0 THEN increment ELSE Int16(count - increment)

\* Mutant: the head of the ring stays.
HeadStays(head) == head

\* The slot after the head, where the oldest timestamp is.
HeadAdvanced(head) == (head + 1) % Modulus

\* update<increment>: +1 for an insertion and -1 for a removal, between two keys.
update(det, s, increment, predecessor, successor) ==
    LET old == det.sections[s]
        backwards == successor = old.key_bwd
        forwards == ~ backwards /\ predecessor = old.key_fwd
        neither == ~ backwards /\ ~ forwards
        now == det.m_counter + 1
        new == [head |-> HeadAdvanced(old.head),
                count_segment |-> SegmentCounter(old.count_segment, increment),
                count_bwd |-> IF backwards THEN Matched(old.count_bwd, increment)
                              ELSE IF neither THEN Unmatched(old.count_bwd, increment) ELSE old.count_bwd,
                count_fwd |-> IF forwards THEN Matched(old.count_fwd, increment)
                              ELSE IF neither THEN Unmatched(old.count_fwd, increment) ELSE old.count_fwd,
                key_bwd |-> IF neither /\ old.count_bwd = 0 THEN successor ELSE old.key_bwd,
                key_fwd |-> IF neither /\ old.count_fwd = 0 THEN predecessor ELSE old.key_fwd,
                timestamps |-> [old.timestamps EXCEPT ![old.head] = now]]
    IN  [m_counter |-> now, sections |-> [det.sections EXCEPT ![s] = new]]

Detector_insert(det, s, predecessor, successor) == update(det, s, 1, predecessor, successor)
Detector_remove(det, s, predecessor, successor) == update(det, s, -1, predecessor, successor)

-----------------------------------------------------------------------------
\* MoveDetectorInfo::move_section: a section that stays where it is is not registered.
move_section(registered, from, to) ==
    IF from = to THEN registered ELSE Append(registered, <<from, to>>)

\* MoveDetectorInfo::move: every section registered is copied and erased, in order, then
\* every copy is written to where it goes.  Segments are relative to the window.
move(det, window_start, registered) ==
    LET Copied(i) == IF \E j \in 1 .. (i - 1) : registered[j][1] = registered[i][1] THEN NoSection
                     ELSE det.sections[window_start + registered[i][1]]
        To(s) == {i \in DOMAIN registered : window_start + registered[i][2] = s}
        Taken(s) == \E i \in DOMAIN registered : window_start + registered[i][1] = s
    IN  [det EXCEPT !.sections =
            [s \in DOMAIN @ |-> IF To(s) # {} THEN Copied(Max(To(s)))
                                ELSE IF Taken(s) THEN NoSection ELSE @[s]]]

-----------------------------------------------------------------------------
prefix_sum_cardinalities(sizes) ==
    LET Sum[s \in DOMAIN sizes] == sizes[s] + IF s = 0 THEN 0 ELSE Sum[s - 1]
    IN  Sum
get_cardinality_upto_excl(sizes, s) == IF s = 0 THEN 0 ELSE prefix_sum_cardinalities(sizes)[s - 1]
Total(sizes) == get_cardinality_upto_excl(sizes, Cardinality(DOMAIN sizes))

\* PackedMemoryArray::find_key: the position of a key in its segment, or -1.
find_key(seq, size, key) ==
    IF key = MinKey THEN 0
    ELSE IF key = MaxKey THEN Min({size, LargestFound})
    ELSE SelectInSeq(seq, LAMBDA e : e[1] = key) - 1

\* The timestamps of the segments of the window, in the order of the buffer.
fetch_detector_keys(det, start, length) ==
    FlattenSeq([i \in 1 .. length |->
        SelectSeq([h \in 1 .. Modulus |-> det.sections[start + i - 1].timestamps[h - 1]], LAMBDA t : t # 0)])

Swapped(A, i, j) == [A EXCEPT ![i] = A[j], ![j] = A[i]]

\* partition: the elements below the pivot, those equal to it, those above it; and where
\* those equal to it start.
partition(A) ==
    LET pivoted == Swapped(A, 1, Len(A) \div 2 + 1)
        Step(p, i) ==
            IF p.A[i] = pivoted[1] THEN [p EXCEPT !.A = Swapped(@, p.eq, i), !.eq = @ + 1]
            ELSE IF p.A[i] < pivoted[1]
            THEN [A |-> Swapped(Swapped(p.A, p.lt, i), p.eq, i), lt |-> p.lt + 1, eq |-> p.eq + 1]
            ELSE p
        p == FoldLeft(Step, [A |-> pivoted, lt |-> 1, eq |-> 2], [i \in 1 .. (Len(A) - 1) |-> i + 1])
    IN  [A |-> p.A, pivot |-> p.lt]

\* rank: quickselect of the element with so many before it.
RECURSIVE rank(_, _)
rank(A, position) ==
    IF Len(A) = 1 THEN A[1]
    ELSE LET p == partition(A)
         IN  IF p.pivot = position + 1 THEN p.A[p.pivot]
             ELSE IF position + 1 < p.pivot THEN rank(SubSeq(p.A, 1, p.pivot - 1), position)
             ELSE rank(SubSeq(p.A, p.pivot + 1, Len(A)), position - p.pivot)

\* The timestamp from which on a segment counts as updated lately; none without updates.
select_threshold(timestamps) ==
    LET n == Len(timestamps)
    IN  rank(timestamps, Min({(RankThreshold * n) \div 100, Max({0, n - Modulus})}))

\* +1, -1 or, for a segment that is not hammered, 0.
WeightOf(section, threshold) ==
    IF section.timestamps[section.head] < threshold THEN 0
    ELSE IF section.count_segment > SegmentThreshold THEN 1
    ELSE IF section.count_segment < -SegmentThreshold THEN -1 ELSE 0

\* Two elements where a sequence of updates was seen, else the whole segment.  Removals
\* backwards are looked for in count_bwd, like those forwards, and so never seen.
Hammered(section, weight, seq, sizes, i) ==
    LET base == get_cardinality_upto_excl(sizes, i)
        next == find_key(seq, sizes[i], section.key_bwd)
        previous == find_key(seq, sizes[i], section.key_fwd)
        forwards == (weight > 0 /\ section.count_bwd >= SequenceThreshold)
                        \/ (weight < 0 /\ section.count_bwd <= -SequenceThreshold)
        backwards == weight > 0 /\ section.count_fwd >= SequenceThreshold
    IN  IF forwards /\ next # -1 THEN [start |-> base + Max({0, next - 1}), length |-> 2]
        ELSE IF ~ forwards /\ backwards /\ previous # -1 THEN [start |-> base + previous, length |-> 2]
        ELSE [start |-> base, length |-> sizes[i]]

\* The interval ends with the elements of the window, and has one element at least.
Clipped(interval, total) ==
    LET length == Min({interval.length, total - interval.start})
    IN  IF length > 0 THEN [interval EXCEPT !.length = length]
        ELSE [start |-> Min({interval.start, total - 1}), length |-> 1]

\* Mutant: the interval replaced keeps its part of the balance.
MergedKeepsBalance(found, interval, weight, window_start, i) ==
    LET last == found.output[Len(found.output)]
        longer == [last EXCEPT !.m_length = interval.start + interval.length - last.m_start]
    IN  IF last.m_weight = weight
        THEN [found EXCEPT !.output[Len(found.output)] = longer]
        ELSE [det |-> Detector_clear_segment(found.det, window_start + i),
              output |-> [found.output EXCEPT ![Len(found.output)] = [longer EXCEPT !.m_weight = 0]],
              balance |-> found.balance]

\* An interval that meets the one before it is merged with it; with the opposite weight
\* neither is hammered, and what the detector knows of them is dropped.
Merged(found, interval, weight, window_start, i) ==
    LET last == found.output[Len(found.output)]
        longer == [last EXCEPT !.m_length = interval.start + interval.length - last.m_start]
    IN  IF last.m_weight = weight
        THEN [found EXCEPT !.output[Len(found.output)] = longer]
        ELSE [det |-> Detector_clear_segment(found.det, window_start + i),
              output |-> [found.output EXCEPT ![Len(found.output)] = [longer EXCEPT !.m_weight = 0]],
              balance |-> found.balance - last.m_weight]

detect_hammered(det, segs, sizes, window_start, threshold) ==
    LET Step(found, n) ==
            LET i == n - 1
                section == det.sections[window_start + i]
                weight == WeightOf(section, threshold)
                interval == Clipped(Hammered(section, weight, segs[window_start + i], sizes, i), Total(sizes))
                last == found.output[Len(found.output)]
            IN  IF weight = 0 THEN found
                ELSE IF found.output # <<>> /\ last.m_start + last.m_length >= interval.start
                THEN Merged(found, interval, weight, window_start, i)
                ELSE [found EXCEPT !.balance = @ + weight,
                                   !.output = Append(@, [m_start |-> interval.start,
                                                         m_length |-> interval.length, m_weight |-> weight,
                                                         m_associated_segment |-> i])]
    IN  FoldLeft(Step, [det |-> det, output |-> <<>>, balance |-> 0],
                 [n \in 1 .. Cardinality(DOMAIN sizes) |-> n])

remove_neutral(found, window_start) ==
    LET neutral == {found.output[j].m_associated_segment :
                        j \in {k \in DOMAIN found.output : found.output[k].m_weight = 0}}
    IN  [det |-> [found.det EXCEPT !.sections =
                     [s \in DOMAIN @ |-> IF s - window_start \in neutral THEN NoSection ELSE @[s]]],
         output |-> SelectSeq(found.output, LAMBDA w : w.m_weight # 0),
         balance |-> found.balance]

\* The constructor: the detector after it, the intervals and their balance.
Weights_new(det, segs, sizes, window_start) ==
    LET timestamps == fetch_detector_keys(det, window_start, Cardinality(DOMAIN sizes))
    IN  IF timestamps = <<>> THEN [det |-> det, output |-> <<>>, balance |-> 0]
        ELSE remove_neutral(
                detect_hammered(det, segs, sizes, window_start, select_threshold(timestamps)), window_start)
=============================================================================
