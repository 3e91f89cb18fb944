------------------------- MODULE AdaptiveRebalancing3 -------------------------
(***************************************************************************)
(* class AdaptiveRebalancing of the int3 array (pma/adaptive/int3), whose  *)
(* windows need not be a power of two: a part is halved with the odd       *)
(* segment on the left, and the bounds of a half are those of a fractional *)
(* height.  The split point itself is found as in int2 (AdaptiveSplit).    *)
(*                                                                         *)
(* The result of the recursion is a record of the partitions and of the    *)
(* sections registered in MoveDetectorInfo, in the order they are made,    *)
(* and of whether the assertion of validate_thresholds held throughout:    *)
(* where it fails the program is aborted.                                  *)
(***************************************************************************)
EXTENDS Segments

AS == INSTANCE AdaptiveSplit

find_split_point(W, balance) == AS!find_split_point(W, balance)
rebalancing_paro(W, index, cardinality) == AS!rebalancing_paro(W, index, cardinality)
rebalancing_sparu(W, index, cardinality) == AS!rebalancing_sparu(W, index, cardinality)
find_optimum(W, balance, cardinality) == AS!find_optimum(W, balance, cardinality)
ensure_lower_threshold(lo, hi, W, opt) == AS!ensure_lower_threshold(lo, hi, W, opt)
ensure_upper_threshold(lo, hi, W, opt) == AS!ensure_upper_threshold(lo, hi, W, opt)

\* log2(n), in thousandths.
Log2 ==
    <<0, 1000, 1585, 2000, 2322, 2585, 2807, 3000, 3170, 3322, 3459, 3585, 3700, 3807, 3907, 4000,
      4087, 4170, 4248, 4322, 4392, 4459, 4524, 4585>>

CeilDiv(a, b) == (a + b - 1) \div b

\* DensityBounds::thresholds_dec: over DecScale, for a height in thousandths.
DecScale(tree_height) == IF tree_height = 1 THEN 100 ELSE 100000 * (tree_height - 1)
RhoDec(bounds, tree_height, height) ==
    IF tree_height = 1 THEN bounds.rho_0
    ELSE bounds.rho_h * 1000 * (tree_height - 1)
            - (bounds.rho_h - bounds.rho_0) * (1000 * tree_height - height)
ThetaDec(bounds, tree_height, height) ==
    IF tree_height = 1 THEN bounds.theta_0
    ELSE bounds.theta_h * 1000 * (tree_height - 1)
            + (bounds.theta_0 - bounds.theta_h) * (1000 * tree_height - height)

\* The elements so many segments must and may have.
size_min(bounds, tree_height, segments) ==
    AS!Max2(segments, CeilDiv(RhoDec(bounds, tree_height, Log2[segments] + 1000) * segments * SegmentCapacity,
                           DecScale(tree_height)))
size_max(bounds, tree_height, segments) ==
    (ThetaDec(bounds, tree_height, Log2[segments] + 1000) * segments * SegmentCapacity)
        \div DecScale(tree_height)

PartLeft(length) == (length + 1) \div 2
PartRight(length) == length \div 2

\* Mutant: the right half may be asked to hold more than its slots.
CardinalityMinLeft(bounds, tree_height, length, n) == size_min(bounds, tree_height, PartLeft(length))

\* The bounds of the left half that both halves can do with.
cardinality_min(bounds, tree_height, length, n) ==
    AS!Max2(size_min(bounds, tree_height, PartLeft(length)), n - size_max(bounds, tree_height, PartRight(length)))
cardinality_max(bounds, tree_height, length, n) ==
    AS!Min2(size_max(bounds, tree_height, PartLeft(length)), n - size_min(bounds, tree_height, PartRight(length)))

Validated(lo, hi, W, opt) ==
    IF opt.cardinality < lo THEN ensure_lower_threshold(lo, hi, W, opt)
    ELSE IF opt.cardinality > hi THEN ensure_upper_threshold(lo, hi, W, opt)
    ELSE AS!Adjusted(opt.cardinality, opt.index, opt.balance, W)

validate_thresholds(bounds, tree_height, length, W, n, opt) ==
    Validated(cardinality_min(bounds, tree_height, length, n),
              cardinality_max(bounds, tree_height, length, n), W, opt)

\* MoveDetectorInfo::move_section: a section that stays where it is is not registered.
Registered(from, to) == IF from = to THEN <<>> ELSE <<<<from, to>>>>

emit(n, segments, moves) ==
    [partitions |-> <<[m_cardinality |-> n, m_segments |-> segments]>>, moves |-> moves, asserted |-> TRUE]

\* The assertion of validate_thresholds: some split suits both halves.
Splittable(bounds, tree_height, length, n) ==
    cardinality_min(bounds, tree_height, length, n) <= cardinality_max(bounds, tree_height, length, n)

\* recursion: a part of so many segments from part_start on, with its intervals.
Joined(left, right) ==
    [partitions |-> left.partitions \o right.partitions, moves |-> left.moves \o right.moves,
     asserted |-> left.asserted /\ right.asserted]
NotAsserted == [partitions |-> <<>>, moves |-> <<>>, asserted |-> FALSE]

RECURSIVE recursion(_, _, _, _, _, _, _)
Halved(bounds, tree_height, part_start, length, balance, n, opt) ==
    Joined(recursion(bounds, tree_height, part_start, PartLeft(length),
                     SubSeq(opt.W, 1, opt.index + 1), opt.balance, opt.cardinality),
           recursion(bounds, tree_height, part_start + PartLeft(length), PartRight(length),
                     AS!Shifted(SubSeq(opt.W, opt.index + 2, Len(opt.W)), opt.cardinality),
                     balance - opt.balance, n - opt.cardinality))
recursion(bounds, tree_height, part_start, length, W, balance, n) ==
    IF length = 1
    THEN emit(n, 1, IF W = <<>> THEN <<>> ELSE Registered(W[1].m_associated_segment, part_start))
    ELSE IF W = <<>> THEN emit(n, length, <<>>)
    ELSE IF length = 2 /\ Len(W) = 1 /\ W[1].m_length = SegmentCapacity
    THEN emit(n, 2, Registered(W[1].m_associated_segment, part_start)
                        \o Registered(W[1].m_associated_segment, part_start + 1))
    ELSE IF ~ Splittable(bounds, tree_height, length, n) THEN NotAsserted
    ELSE Halved(bounds, tree_height, part_start, length, balance, n,
                validate_thresholds(bounds, tree_height, length, W, n, find_optimum(W, balance, n)))

\* The sizes of the segments that the partitions give.
SegmentsIn(partitions) == FoldLeft(LAMBDA n, p : n + p.m_segments, 0, partitions)
PartitionSizes(partitions) ==
    LET all == FlattenSeq([i \in DOMAIN partitions |->
                  LET even == EvenSizes(partitions[i].m_segments, partitions[i].m_cardinality)
                  IN  [j \in 1 .. partitions[i].m_segments |-> even[j - 1]]])
    IN  [s \in 0 .. (Len(all) - 1) |-> all[s + 1]]

\* The assertions of emit, of every part.
Fit(partitions) ==
    \A i \in DOMAIN partitions :
        /\ partitions[i].m_segments <= partitions[i].m_cardinality
        /\ partitions[i].m_cardinality <= partitions[i].m_segments * SegmentCapacity
=============================================================================
