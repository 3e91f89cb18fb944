------------------------------ MODULE MCAdaptive ------------------------------
(* The adaptive arrays, each on its own: the rebalancing of int2 over given windows and  *)
(* over the windows that its detector makes, the array of int3 with given windows and    *)
(* with its detector, and the array of bh07_v2 with its predictor.                       *)
(* The given windows are of four segments of four slots, in a tree of the same height,  *)
(* and have the variables of AdaptiveRebalancing; the others leave these as they were.   *)
EXTENDS AdaptiveRebalancing

CONSTANT Arrays                         \* the arrays to check

VARIABLES
    array,                              \* which one it is
    pma, ret,                           \* the storage and the index; what the last update returned
    det, call,                          \* the detector or the predictor; the update being made
    window, calls, parts, sections,     \* of AdaptiveRebalancing, as HammeredSegments uses it
    apma                                \* what AdaptiveRebalancing made of the last rebalance

windows == <<window, calls, parts, sections>>

(* Four segments of four slots; the elements to insert are in two clusters.              *)
Loaded == [s \in 0 .. 3 |-> [i \in 1 .. <<2, 2, 2, 3>>[s + 1] |-> <<20 * s + 5 * i, 1>>]]
Clusters == {<<k, 1>> : k \in {6, 7, 8, 27, 28, 46}}

D == INSTANCE HammeredSegments WITH
    case <- window, frames <- calls, m_partitions <- parts, moved <- sections,
    SegmentCapacity <- 4, Rho0 <- 10, RhoH <- 30, ThetaH <- 75, Theta0 <- 100, MinKey <- 0, MaxKey <- 1000,
    Modulus <- 2, MaxSequenceCounter <- 2, MaxSegmentCounter <- 3,
    SegmentThreshold <- 1, SequenceThreshold <- 1, RankThreshold <- 20, LargestFound <- 5,
    NumHeight <- 3, MaxUpdates <- 6, Elements <- Clusters, Removable <- {25, 30, 45}

D3 == INSTANCE HammeredSegments3 WITH
    SegmentCapacity <- 4, Rho0 <- 10, RhoH <- 30, ThetaH <- 75, Theta0 <- 100, MinKey <- 0, MaxKey <- 1000,
    Modulus <- 2, MaxSequenceCounter <- 2, MaxSegmentCounter <- 3,
    SegmentThreshold <- 1, SequenceThreshold <- 1, RankThreshold <- 20,
    MaxUpdates <- 6, Elements <- Clusters, Keys <- {25, 30, 45}, Intervals <- {}, MaxElements <- 100,
    SegmentsPerExtent <- 8, CutoffExtents <- 2, PrimaryRho0 <- 0, RootDensity <- 50, Hammers <- {}

(* Extents of two segments and a cutoff of two of them: beyond it the array has 6         *)
(* segments, which AdaptiveRebalancing halves into parts of 3, 2 and 1.                   *)
At(percent, length, weight) == [percent |-> percent, length |-> length, weight |-> weight]
Int3 == INSTANCE PackedMemoryArrayInt3 WITH
    SegmentCapacity <- 4, Rho0 <- 10, RhoH <- 25, ThetaH <- 75, Theta0 <- 100, MinKey <- 0, MaxKey <- 9,
    Elements <- {<<1, 10>>, <<2, 20>>}, Keys <- 1 .. 2, Intervals <- {<<2, 2>>, <<3, 1>>},
    MaxElements <- 13, SegmentsPerExtent <- 2, CutoffExtents <- 2, PrimaryRho0 <- 0, RootDensity <- 50,
    Hammers <- {<<>>, <<At(0, 2, 1), At(50, 4, -1)>>}

(* Arrays that grow to eight segments of four slots.                                      *)
BH07 == INSTANCE APMA_BH07_v2 WITH
    SegmentCapacity <- 4, Rho0 <- 10, RhoH <- 30, ThetaH <- 75, Theta0 <- 100, MinKey <- 0, MaxKey <- 9,
    Elements <- {<<1, 10>>, <<2, 20>>}, Keys <- 1 .. 3, Intervals <- {<<2, 2>>, <<1, 3>>, <<3, 1>>},
    MaxElements <- 20, PredictorScale <- 2, Past <- {0, 3}, predictor <- det, pending <- call

(* From nothing, from two segments about to be resized and from four; nodes of the index  *)
(* with two children, so that it has as many levels as the calibrator tree.               *)
Int1 == INSTANCE PackedMemoryArrayInt1 WITH
    SegmentCapacity <- 4, Rho0 <- 10, RhoH <- 30, ThetaH <- 75, Theta0 <- 100, MinKey <- 0, MaxKey <- 1000,
    Modulus <- 2, MaxSequenceCounter <- 2, MaxSegmentCounter <- 3,
    SegmentThreshold <- 1, SequenceThreshold <- 1, RankThreshold <- 20,
    Elements <- {<<6, 1>>, <<7, 2>>, <<27, 3>>}, Keys <- {6, 25, 45}, Intervals <- {<<6, 45>>, <<26, 26>>},
    IndexBlock <- 2, MaxUpdates <- 6,
    Starts <- {[s \in {0} |-> <<>>], [s \in 0 .. 1 |-> Append(Loaded[2 * s], Loaded[2 * s + 1][1])], Loaded}

ASSUME AdaptiveAssumptions ==
    /\ AdaptiveAssumption /\ D!SegmentsAssumption /\ D!DetectorAssumption
    /\ D3!SegmentsAssumption /\ D3!W3!DetectorAssumption /\ D3!P8!PackedMemoryArray8Assumption
    /\ Int3!SegmentsAssumption /\ Int3!P8!PackedMemoryArray8Assumption
    /\ BH07!SegmentsAssumption /\ BH07!BH07Assumption
    /\ Int1!SegmentsAssumption /\ Int1!W1!DetectorAssumption /\ Int1!Int1Assumption

\* What an array has no use for.
NoWindow == window = 0 /\ calls = 0 /\ parts = 0 /\ sections = 0
NoSplit == case = (CHOOSE c \in Cases : TRUE) /\ Init

AdaptiveInit ==
    /\ array \in Arrays
    /\ \/ /\ array = "int2_windows" /\ Init
          /\ NoWindow /\ pma = 0 /\ ret = 0 /\ det = 0 /\ call = 0 /\ apma = 0
       \/ /\ array # "int2_windows" /\ NoSplit
          /\ \/ array = "int2" /\ D!Init /\ ret = 0 /\ apma = 0
             \/ array = "int1" /\ Int1!Init /\ NoWindow /\ call = 0 /\ apma = 0
             \/ array = "int3" /\ D3!HammeredInit /\ NoWindow
             \/ array = "int3_windows" /\ Int3!Init /\ NoWindow /\ det = 0 /\ call = 0
             \/ array = "bh07" /\ BH07!Init /\ NoWindow

AdaptiveNext ==
    /\ UNCHANGED array
    /\ \/ array = "int2_windows" /\ Next /\ UNCHANGED <<windows, pma, ret, det, call, apma>>
       \/ array = "int2" /\ D!Next /\ UNCHANGED <<vars, ret, apma>>
       \/ array = "int1" /\ Int1!Next /\ UNCHANGED <<vars, windows, call, apma>>
       \/ array = "int3" /\ D3!HammeredNext /\ UNCHANGED <<vars, windows>>
       \/ array = "int3_windows" /\ Int3!Next /\ UNCHANGED <<vars, windows, det, call>>
       \/ array = "bh07" /\ BH07!Next /\ UNCHANGED <<vars, windows>>

arrays == <<array, vars, windows, pma, ret, det, call, apma>>
AdaptiveSpec == AdaptiveInit /\ [][AdaptiveNext]_arrays

-----------------------------------------------------------------------------
\* What int2's Detector hands over is sound: the threshold is the rank asked for, and the head
\* of every ring that it is compared with is the oldest timestamp there.
DetectorSound == array = "int2" => D!DetectorSound

\* What the rebalancing makes of it is sound: intervals that do not meet, and partitions of
\* the window that fit its segments.
RebalancingSound == array = "int2" => D!RebalancingSound

\* Detector::insert is to "Record an insertion in the given segment": int2 may move the
\* sections of the detector over what the spread has just recorded.
InsertionIsRecorded == array = "int2" => D!InsertionIsRecorded

\* Whatever the detector of int1 has seen, and though a resize may leave the segment of the
\* insertion full, its updates and what its index leads the reads to are as pma/interface.hpp
\* describes.
Int1ImplementsMap ==
    /\ [][array = "int1" => [Int1!Map!Next]_(Int1!Map!vars)]_arrays
    /\ [](array = "int1" => Int1!Map!ReadsAgree)

\* int3 moves the sections first: after an insertion the segment that holds the element has
\* the newest timestamp, unless the detector was cleared since.
Int3InsertionIsRecorded == array = "int3" => D3!InsertionIsRecorded

\* The assertions of int3's AdaptiveRebalancing::emit, whatever intervals are hammered.
Int3PartitionsFit == array = "int3_windows" => Int3!PartitionsFit

\* Whatever intervals are hammered when a window is rebalanced or the array resized, across
\* the cutoff and back, int3's array is the collection that pma/interface.hpp describes.
Int3ImplementsMap ==
    /\ array = "int3_windows" => Int3!Map!Init
    /\ [][array = "int3_windows" => [Int3!Map!Next]_(Int3!Map!vars)]_arrays
    /\ [](array = "int3_windows" => Int3!Map!ReadsAgree)

\* The sanity check of compute_rec in bh07_v2, although a half may be given the weights of the
\* other half; after a resize the insertion tried again succeeds.
BH07PartitionsFit == array = "bh07" => BH07!PartitionsFit

\* The insertions of bh07_v2, those tried twice included, and what its reads return are as
\* pma/interface.hpp describes, whatever the predictor holds.
BH07ImplementsMap ==
    /\ array = "bh07" => BH07!Map!Init
    /\ [][array = "bh07" => [BH07!Map!Next]_(BH07!Map!vars)]_arrays
    /\ [](array = "bh07" => BH07!Map!ReadsAgree)

-----------------------------------------------------------------------------
(* Windows at every cardinality the thresholds admit, with up to three hammered intervals. *)

Cardinalities == SizeMin(HeightOf(4), 16) .. SizeMax(HeightOf(4), 16)

Hammered(start, length, weight, segment) ==
    [m_start |-> start, m_length |-> length, m_weight |-> weight, m_associated_segment |-> segment]

\* Sequences of n intervals in order, apart from each other, of distinct segments.  What
\* detect_hammered gives an interval: a sequence has two elements, a segment all four.
Weights(n, cardinality) ==
    LET shape == {s \in [1 .. n -> (0 .. (cardinality - 1)) \X {2, 4}] :
                     /\ \A i \in 1 .. n : s[i][1] + s[i][2] <= cardinality
                     /\ \A i \in 1 .. (n - 1) : s[i][1] + s[i][2] < s[i + 1][1]}
    IN  {[i \in 1 .. n |-> Hammered(s[i][1], s[i][2], v[i], i)] :
            s \in shape, v \in [1 .. n -> {-1, 1}]}

Balance(W) ==
    LET Sum[i \in 0 .. Len(W)] == IF i = 0 THEN 0 ELSE Sum[i - 1] + W[i].m_weight
    IN  Sum[Len(W)]

MCCases ==
    UNION {{[length |-> 4, cardinality |-> c, weights |-> W, balance |-> Balance(W)] :
               W \in UNION {Weights(n, c) : n \in 0 .. 3}} : c \in Cardinalities}
=============================================================================
