----------------------------- MODULE MCContainers -----------------------------
(* The containers without an adaptive rebalancing, each on its own: is every one of     *)
(* them the collection that pma/interface.hpp describes?  And the predictor of bh07_v2, *)
(* whose variables are those of Predictor: is it the queue that its header describes?   *)
(*                                                                                      *)
(* The predictor has capacities of 3 to 6 in buffers of 4 and 8 items, resized in any   *)
(* order, and four segments, so that the smaller arrays may be full.                    *)
EXTENDS Predictor

CONSTANTS
    Containers,      \* the containers to check
    V4Elements,      \* what is inserted into btreepma_v4
    V4Distinct       \* is every key inserted into it only once?

VARIABLES
    container,       \* which one it is
    pma, ret,        \* its storage and index, and what the last update returned
    extra            \* alive, fixed or ops

containers == <<container, vars, pma, ret, extra>>

ThreeElements == {<<1, 10>>, <<2, 20>>, <<3, 30>>}
Ascending(n) == [i \in 1 .. n |-> <<i, 10 * i>>]

(* Segments of four slots, three keys, and batches that fill one segment, several and    *)
(* the whole array.                                                                      *)
CC5 == INSTANCE BTreePMACC5 WITH
    SegmentCapacity <- 4, Rho0 <- 8, RhoH <- 30, ThetaH <- 75, Theta0 <- 100, MinKey <- 0, MaxKey <- 9,
    Elements <- ThreeElements, Keys <- 1 .. 4, Intervals <- {<<2, 2>>, <<2, 3>>, <<0, 9>>, <<3, 1>>},
    Batches <- {<<>>, <<<<2, 20>>>>, <<<<1, 10>>, <<1, 10>>, <<3, 30>>>>,
                <<<<1, 10>>, <<2, 20>>, <<2, 20>>, <<2, 20>>, <<3, 30>>>>},
    MaxElements <- 8, PastTheSizes <- {0}

(* The same with extents of two segments, so that an array of two segments is rewired    *)
(* and one of four has several extents.                                                  *)
CC7 == INSTANCE BTreePMACC7 WITH
    SegmentCapacity <- 4, Rho0 <- 8, RhoH <- 30, ThetaH <- 75, Theta0 <- 100, MinKey <- 0, MaxKey <- 9,
    Elements <- ThreeElements, Keys <- 1 .. 4, Intervals <- {<<2, 2>>, <<0, 9>>, <<3, 1>>},
    Batches <- {<<<<1, 10>>, <<1, 10>>, <<3, 30>>>>,
                <<<<1, 10>>, <<2, 20>>, <<2, 20>>, <<2, 20>>, <<3, 30>>>>,
                <<<<1, 10>>, <<1, 10>>, <<1, 10>>, <<1, 10>>, <<1, 10>>>>},
    MaxElements <- 9, SegmentsPerExtent <- 2, alive <- extra

(* Extents of four segments and a cutoff of two of them: beyond it the array has 12      *)
(* segments, which is no power of two.                                                   *)
PMA8 == INSTANCE PackedMemoryArray8 WITH
    SegmentCapacity <- 3, Rho0 <- 34, RhoH <- 45, ThetaH <- 67, Theta0 <- 100, MinKey <- 0, MaxKey <- 9,
    Elements <- {<<1, 10>>, <<2, 20>>}, Keys <- 1 .. 2, Intervals <- {<<2, 2>>, <<3, 1>>},
    MaxElements <- 17, SegmentsPerExtent <- 4, CutoffExtents <- 2, PrimaryRho0 <- 34, RootDensity <- 50

(* From the empty array, or from one of four segments that a few more insertions spread  *)
(* and resize into four segments of twice the capacity.                                  *)
Drui == INSTANCE DruiPMA WITH
    Elements <- {<<k, 10 * k>> : k \in (1 .. 8) \union {11, 13, 17, 19}},
    Starts <- {[i \in 1 .. 10 |-> <<2 * i, 20 * i>>], [i \in 1 .. 10 |-> <<2 * (11 - i), 20 * (11 - i)>>],
               [i \in 1 .. 9 |-> LET k == <<2, 12, 4, 18, 6, 16, 8, 14, 10>>[i] IN <<k, 10 * k>>]},
    InitialCapacity <- 4, MaxElements <- 14, InodeA <- 2, InodeB <- 4, LeafA <- 2, LeafB <- 4

(* Segments of four slots that grow to eight when the array has 32, and an index with    *)
(* nodes of two to four, which therefore splits and merges.                              *)
V4 == INSTANCE BTreePMA_v4 WITH
    SegmentCapacity <- 4, Rho0 <- 10, RhoH <- 30, ThetaH <- 50, Theta0 <- 100, MinKey <- 0, MaxKey <- 10,
    Elements <- V4Elements, Keys <- 0 .. 9, Intervals <- {<<2, 5>>, <<3, 3>>, <<0, 10>>, <<3, 1>>},
    MaxElements <- 9, Distinct <- V4Distinct, InodeA <- 2, InodeB <- 4, LeafA <- 2, LeafB <- 4,
    fixed <- extra

(* Nodes of two to four: nine and twelve elements make trees of three levels.            *)
AB == INSTANCE ABTree WITH
    InodeA <- 2, InodeB <- 4, LeafA <- 2, LeafB <- 4,
    Elements <- {<<3, 31>>, <<6, 60>>}, Keys <- {1, 3, 6, 8},
    Intervals <- {<<2, 4>>, <<3, 8>>, <<5, 5>>, <<6, 3>>},
    Batches <- {Reverse(Ascending(3)), Ascending(9), Ascending(12), [i \in 1 .. 9 |-> <<(i \div 3) * 3, i>>]},
    MaxPermuted <- 3, MaxOps <- 4, tree <- pma, ops <- extra

(* Trees of up to three levels: the starts have eleven and twelve elements, with an      *)
(* inner node that is as small, or as large, as it may be.                               *)
Index == INSTANCE DynamicIndex WITH
    InodeA <- 2, InodeB <- 4, LeafA <- 2, LeafB <- 4,
    Elements <- {<<2, 20>>, <<2, 21>>, <<7, 70>>}, Keys <- {2, 4, 5, 7, 11},
    Starts <- {Ascending(11), Reverse(Ascending(12)), [i \in 1 .. 11 |-> <<IF i \in 4 .. 8 THEN 4 ELSE i, i>>],
               [i \in 1 .. 6 |-> <<2, i>>]},
    Everything <- <<0, 99>>, MaxOps <- 5, tree <- pma, ops <- extra

ASSUME ContainersAssumption ==
    /\ CC5!SegmentsAssumption /\ CC5!BTreePMACC5Assumption
    /\ CC7!SegmentsAssumption /\ CC7!BTreePMACC7Assumption
    /\ PMA8!SegmentsAssumption /\ PMA8!PackedMemoryArray8Assumption
    /\ Drui!DruiPMAAssumption /\ V4!SegmentsAssumption /\ V4!T!TreeAssumption
    /\ PredictorAssumption /\ AB!ABTreeAssumption /\ Index!TreeAssumption /\ Index!DynamicIndexAssumption

\* What the predictor and the other containers have no use for.
NoPredictor == m_capacity = 3 /\ m_count_max = 1 /\ Init
NoContainer == pma = 0 /\ ret = 0 /\ extra = 0

ContainersInit ==
    /\ container \in Containers
    /\ \/ container = "predictor" /\ Init /\ NoContainer
       \/ /\ container # "predictor" /\ NoPredictor
          /\ \/ container = "btreepmacc5" /\ CC5!Init /\ extra = 0
             \/ container = "btreepmacc7" /\ CC7!Init
             \/ container = "pma8" /\ PMA8!Init /\ extra = 0
             \/ container = "drui" /\ Drui!Init /\ extra = 0
             \/ container = "btreepma_v4" /\ V4!Init
             \/ container = "abtree" /\ AB!Init
             \/ container = "dynamic_index" /\ Index!Init

\* A predictor is followed as long as it lies in its buffer: see Contained.
ContainersNext ==
    /\ UNCHANGED container
    /\ \/ container = "predictor" /\ Next /\ Contained' /\ UNCHANGED <<pma, ret, extra>>
       \/ container = "btreepmacc5" /\ CC5!Next /\ UNCHANGED <<vars, extra>>
       \/ container = "btreepmacc7" /\ CC7!Next /\ UNCHANGED vars
       \/ container = "pma8" /\ PMA8!Next /\ UNCHANGED <<vars, extra>>
       \/ container = "drui" /\ Drui!Next /\ UNCHANGED <<vars, extra>>
       \/ container = "btreepma_v4" /\ V4!Next /\ UNCHANGED vars
       \/ container = "abtree" /\ AB!Next /\ UNCHANGED vars
       \/ container = "dynamic_index" /\ Index!Next /\ UNCHANGED vars

ContainersSpec == ContainersInit /\ [][ContainersNext]_containers

-----------------------------------------------------------------------------
(* In each of these what is inserted, loaded and removed, and what find, the iterator    *)
(* and sum return, is as pma/interface.hpp describes.                                    *)

\* BTreePMACC5: whatever is spread in place, resized or loaded.
BTreePMACC5ImplementsMap ==
    /\ container = "btreepmacc5" => CC5!Map!Init
    /\ [][container = "btreepmacc5" => [CC5!Map!Next]_(CC5!Map!vars)]_containers
    /\ [](container = "btreepmacc5" => CC5!Map!ReadsAgree)

\* BTreePMACC5: what every method may rely on when it is called.  The elements are sorted, no
\* segment is overfull or, among several, empty, and every separator is the first key of its
\* segment, whatever was spread, resized or loaded.
BTreePMACC5WellFormed == container = "btreepmacc5" => CC5!WellFormed

\* BTreePMACC7: the same as for BTreePMACC5 with rewired spreads and loads.
BTreePMACC7ImplementsMap ==
    /\ container = "btreepmacc7" => CC7!Map!Init
    /\ [][container = "btreepmacc7" => [CC7!Map!Next]_(CC7!Map!vars)]_containers
    /\ [](container = "btreepmacc7" => CC7!Map!ReadsAgree)

\* PackedMemoryArray (pma8): across the cutoff of its thresholds, in both directions.
PMA8ImplementsMap ==
    /\ container = "pma8" => PMA8!Map!Init
    /\ [][container = "pma8" => [PMA8!Map!Next]_(PMA8!Map!vars)]_containers
    /\ [](container = "pma8" => PMA8!Map!ReadsAgree)

\* PMA_Drui: the gaps that insertCommon moves and the windows that it spreads never put a
\* key into the wrong segment.
DruiImplementsMap ==
    /\ container = "drui" => Drui!Map!Init
    /\ [][container = "drui" => [Drui!Map!Next]_(Drui!Map!vars)]_containers
    /\ [](container = "drui" => Drui!Map!ReadsAgree)

\* BTreePMA_v4: the separators removed and inserted one by one lead to the segments.
V4ImplementsMap ==
    /\ container = "btreepma_v4" => V4!Map!Init
    /\ [][container = "btreepma_v4" => [V4!Map!Next]_(V4!Map!vars)]_containers
    /\ [](container = "btreepma_v4" => V4!Map!ReadsAgree)

\* ABTree: whatever splits, merges, rotations and permutations it took.
ABTreeImplementsMap ==
    /\ container = "abtree" => AB!Map!Init
    /\ [][container = "abtree" => [AB!Map!Next]_(AB!Map!vars)]_containers
    /\ [](container = "abtree" => AB!Map!ReadsAgree)

\* DynamicIndex: what its header says of insert, remove and find.
DynamicIndexImplementsMap ==
    /\ container = "dynamic_index" => Index!Map!Init
    /\ [][container = "dynamic_index" => [Index!Map!Next]_(Index!Map!vars)]_containers
    /\ [](container = "dynamic_index" => Index!Map!ReadsAgree)

\* find_first and find_last of DynamicIndex lead to the greatest key that is not above the one
\* they look for: the arrays route a key to its segment with them.
SearchesAgree == container = "dynamic_index" => Index!SearchesAgree

\* With a key stored more than once in BTreePMA_v4, find returns one of its elements.
DuplicatesAreFound == container = "btreepma_v4" => V4!DuplicatesAreFound

\* sum of ABTree asserts that the next leaf is not empty.
NextLeafNotEmpty == container = "abtree" => AB!NextLeafNotEmpty

-----------------------------------------------------------------------------
MCDistinct == {<<k, 10 * k>> : k \in 1 .. 9}
MCDuplicates == {<<1, 10>>, <<2, 20>>, <<2, 21>>}
=============================================================================
