------------------------- MODULE AdaptiveRebalancing -------------------------
(***************************************************************************)
(* class AdaptiveRebalancing (pma/adaptive/int2/adaptive_rebalancing.cpp): *)
(* how many elements each part of a window gets.  The window is halved     *)
(* recursively; the hammered intervals steer the split point, and the      *)
(* density thresholds of the calibrator tree bound it.                     *)
(*                                                                         *)
(* A call of recursion is a frame; pending frames are a stack, so that a   *)
(* step is one call.  An interval is [m_start, m_length, m_weight,         *)
(* m_associated_segment], its start relative to the first element of the   *)
(* frame's part.  Densities are rationals over Scale.                      *)
(***************************************************************************)
EXTENDS AdaptiveSplit, FiniteSets

CONSTANTS
    SegmentCapacity,   \* m_segment_capacity
    TreeHeight,        \* height of the calibrator tree of the whole array
    Rho0, RhoH, ThetaH, Theta0,   \* density bounds, in hundredths
    Cases              \* the windows that PackedMemoryArray::rebalance hands over

VARIABLES
    case,          \* the window: its length, cardinality, intervals and their balance
    frames,        \* the calls of recursion still to be made, the next one first
    m_partitions,  \* the partitions emitted so far, left to right
    moved          \* the sections registered in MoveDetectorInfo, <<from, to>>

vars == <<case, frames, m_partitions, moved>>

\* log2(length) + 1, the height of a window of that many segments.
HeightOf(length) ==
    LET Height[n \in 1 .. length] == IF n = 1 THEN 1 ELSE Height[n \div 2] + 1
    IN  Height[length]

Scale == 100 * (TreeHeight - 1)

\* thresholds(height), over Scale.
Rho(height) == RhoH * (TreeHeight - 1) - (RhoH - Rho0) * (TreeHeight - height)
Theta(height) == ThetaH * (TreeHeight - 1) + (Theta0 - ThetaH) * (TreeHeight - height)

\* ceil(rho * capacity) and the conversion of theta * capacity to an integer.
SizeMin(height, capacity) == (Rho(height) * capacity + Scale - 1) \div Scale
SizeMax(height, capacity) == (Theta(height) * capacity) \div Scale

\* The calibrator tree is binary: every smaller window is lower.
IsPowerOfTwo(length) == \A n \in 1 .. (length - 1) : HeightOf(n) < HeightOf(length)

\* Does a window of that many segments respect the thresholds of its height?
Admitted(length, cardinality) ==
    /\ SizeMin(HeightOf(length), length * SegmentCapacity) <= cardinality
    /\ cardinality <= SizeMax(HeightOf(length), length * SegmentCapacity)

\* What Weights hands over: intervals in order, that do not meet, of different segments.
Interval == [m_start : Nat, m_length : Nat \ {0}, m_weight : Int, m_associated_segment : Int]
Apart(W, cardinality) ==
    /\ \A i \in DOMAIN W : W[i] \in Interval /\ W[i].m_start <= cardinality
    /\ \A i, j \in DOMAIN W :
          i < j => /\ End(W[i]) <= W[j].m_start
                   /\ W[i].m_associated_segment # W[j].m_associated_segment

\* The constructor of DensityBounds; the windows that rebalance hands over.  The rounding of
\* the thresholds leaves the halves of a window as much room as the window has, and a window
\* that is dense enough an element for each segment: so it does with the default densities
\* for segments of 32, 64, 128 and 256 slots and trees of up to 25 levels.
AdaptiveAssumption ==
    /\ SegmentCapacity \in Nat \ {0}
    /\ TreeHeight \in Nat \ {0, 1}
    /\ Rho0 \in Nat /\ RhoH \in Nat /\ ThetaH \in Nat /\ Theta0 \in Nat
    /\ Rho0 < RhoH /\ RhoH <= ThetaH /\ ThetaH < Theta0 /\ Theta0 <= 100
    /\ \A c \in Cases :
          /\ c.length \in Nat \ {0} /\ IsPowerOfTwo(c.length) /\ HeightOf(c.length) <= TreeHeight
          /\ c.cardinality \in Nat /\ Admitted(c.length, c.cardinality)
          /\ c.weights \in Seq(Interval) /\ Apart(c.weights, c.cardinality)
          /\ \A length \in 1 .. c.length :
                LET slots == length * SegmentCapacity
                    height == HeightOf(length)
                IN  IsPowerOfTwo(length) =>
                       /\ length <= SizeMin(height, slots)
                       /\ length > 1 =>
                             /\ 2 * SizeMin(height - 1, slots \div 2) <= SizeMin(height, slots)
                             /\ SizeMax(height, slots) <= 2 * SizeMax(height - 1, slots \div 2)

Init ==
    /\ case \in Cases
    /\ frames = <<[start |-> 0, length |-> case.length, W |-> case.weights,
                   balance |-> case.balance, cardinality |-> case.cardinality]>>
    /\ m_partitions = <<>>
    /\ moved = <<>>

\* The bounds of a half, and with them those of the left half that both can do with.
Validated(lo, hi, W, opt) ==
    IF opt.cardinality < lo THEN ensure_lower_threshold(lo, hi, W, opt)
    ELSE IF opt.cardinality > hi THEN ensure_upper_threshold(lo, hi, W, opt)
    ELSE Adjusted(opt.cardinality, opt.index, opt.balance, W)
ValidatedWithin(size_min, size_max, W, cardinality, opt) ==
    Validated(Max2(cardinality - size_max, size_min), Min2(cardinality - size_min, size_max), W, opt)

\* Mutant: the bounds of the right half are not looked at.
ValidateLeftOnly(length, height, W, cardinality, opt) ==
    Validated(SizeMin(height - 1, (length * SegmentCapacity) \div 2),
              SizeMax(height - 1, (length * SegmentCapacity) \div 2), W, opt)

\* Both halves must respect the thresholds of their height.
validate_thresholds(length, height, W, cardinality, opt) ==
    ValidatedWithin(SizeMin(height - 1, (length * SegmentCapacity) \div 2),
                    SizeMax(height - 1, (length * SegmentCapacity) \div 2), W, cardinality, opt)

Call == Head(frames)

Emit ==
    /\ m_partitions' =
          Append(m_partitions, [m_cardinality |-> Call.cardinality, m_segments |-> Call.length])
    /\ frames' = Tail(frames)

\* MoveDetectorInfo::move_section ignores a section that stays where it is.
EmitSegment ==
    /\ frames # <<>> /\ Call.length = 1
    /\ Emit
    /\ moved' = IF Call.W # <<>> /\ Call.W[1].m_associated_segment # Call.start
                THEN Append(moved, <<Call.W[1].m_associated_segment, Call.start>>)
                ELSE moved
    /\ UNCHANGED case

\* Nothing to adapt to, or one interval that fills one of two segments.
SpreadsEvenly(frame) ==
    \/ frame.W = <<>>
    \/ frame.length = 2 /\ Len(frame.W) = 1 /\ frame.W[1].m_length = SegmentCapacity

EmitEvenly ==
    /\ frames # <<>> /\ Call.length > 1
    /\ SpreadsEvenly(Call)
    /\ Emit
    /\ UNCHANGED <<case, moved>>

\* The two recursive calls.
Children(opt) ==
    <<[start |-> Call.start, length |-> Call.length \div 2,
       W |-> SubSeq(opt.W, 1, opt.index + 1),
       balance |-> opt.balance, cardinality |-> opt.cardinality],
      [start |-> Call.start + Call.length \div 2, length |-> Call.length \div 2,
       W |-> Shifted(SubSeq(opt.W, opt.index + 2, Len(opt.W)), opt.cardinality),
       balance |-> Call.balance - opt.balance,
       cardinality |-> Call.cardinality - opt.cardinality]>>

Split ==
    /\ frames # <<>> /\ Call.length > 1 /\ ~ SpreadsEvenly(Call)
    /\ frames' = Children(validate_thresholds(Call.length, HeightOf(Call.length), Call.W, Call.cardinality,
                              find_optimum(Call.W, Call.balance, Call.cardinality))) \o Tail(frames)
    /\ UNCHANGED <<case, m_partitions, moved>>

Released == frames = <<>> /\ UNCHANGED vars

Next == EmitSegment \/ EmitEvenly \/ Split \/ Released

Spec == Init /\ [][Next]_vars
-----------------------------------------------------------------------------
TypeInv ==
    /\ \A i \in DOMAIN frames :
          /\ frames[i].start \in Nat /\ frames[i].length \in Nat \ {0}
          /\ frames[i].cardinality \in Nat
    /\ \A i \in DOMAIN m_partitions : m_partitions[i].m_segments \in Nat \ {0}

\* No part is asked to hold more elements than it has slots, which is the assertion
\* of emit, and no part has so few that an even spread leaves a segment empty.
PartitionsFit ==
    \A i \in DOMAIN m_partitions :
        LET p == m_partitions[i]
        IN  p.m_segments <= p.m_cardinality /\ p.m_cardinality <= p.m_segments * SegmentCapacity

\* The sums of the first values of a sequence, by their number.
Sums(values) ==
    LET Sum[i \in 0 .. Len(values)] == IF i = 0 THEN 0 ELSE Sum[i - 1] + values[i]
    IN  Sum

\* However the window is split, the parts made and the parts still to be made tile it
\* from left to right and share out exactly its elements.  A part of several segments
\* starts at a multiple of its length: PackedMemoryArray and SpreadWithRewiring copy
\* segments by pairs and rely on it.
NothingLost ==
    LET Elements == Sums([i \in DOMAIN m_partitions |-> m_partitions[i].m_cardinality])
        Segments == Sums([i \in DOMAIN m_partitions |-> m_partitions[i].m_segments])
        Pending == Sums([i \in DOMAIN frames |-> frames[i].cardinality])
    IN  /\ Elements[Len(m_partitions)] + Pending[Len(frames)] = case.cardinality
        /\ frames # <<>> => Head(frames).start = Segments[Len(m_partitions)]
        /\ frames = <<>> => Segments[Len(m_partitions)] = case.length
        /\ \A i \in DOMAIN m_partitions : Segments[i - 1] % m_partitions[i].m_segments = 0

\* The partitions share out the window: they tile it, lose no element, and each of them
\* fits its segments and leaves none of them empty.
WindowShared == TypeInv /\ PartitionsFit /\ NothingLost

\* The start of an interval is unsigned: shifting it by the cardinality of the left
\* half never takes it below zero, and it is never past the end of its part.
NoUnsignedWrap ==
    \A i \in DOMAIN frames : \A k \in DOMAIN frames[i].W :
        LET w == frames[i].W[k]
        IN  0 <= w.m_start /\ w.m_start <= frames[i].cardinality /\ w.m_length > 0

\* A section of the detector is moved at most once, and no two to the same segment:
\* the copies of MoveDetectorInfo::move would overwrite one another.
MovesAreDistinct ==
    \A i, j \in DOMAIN moved :
        i # j => moved[i][1] # moved[j][1] /\ moved[i][2] # moved[j][2]

\* The intervals handed to the recursive calls can be used as they are: no start wraps
\* around, and no section of the detector is moved twice or onto another.
IntervalsSound == NoUnsignedWrap /\ MovesAreDistinct

\* find_optimum: "did it put the split point on the right?" -- the interval at the
\* split point then goes with the right half, so that every interval handed to a
\* recursive call lies among the elements of its part.
IntervalsInside ==
    \A i \in DOMAIN frames : \A k \in DOMAIN frames[i].W :
        LET w == frames[i].W[k] IN 0 <= w.m_start /\ w.m_start < frames[i].cardinality
=============================================================================
