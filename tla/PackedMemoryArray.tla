-------------------------- MODULE PackedMemoryArray --------------------------
(***************************************************************************)
(* class PackedMemoryArray (pma/adaptive/int2/packed_memory_array.cpp):    *)
(* sorted elements in segments with gaps, one separator key per segment,   *)
(* rebalanced when a segment overflows or becomes too sparse.              *)
(*                                                                         *)
(* A segment is the sequence of its elements; whether they sit at its left *)
(* or right end is the business of SpreadWithRewiring.  How a rebalanced   *)
(* window is shared out among its segments is any layout that              *)
(* AdaptiveRebalancing may produce (its PartitionsFit and NothingLost).    *)
(* Densities are rationals over Scale.                                     *)
(***************************************************************************)
EXTENDS Integers, SequencesExt, FiniteSetsExt

CONSTANTS
    SegmentCapacity,              \* m_segment_capacity
    Rho0, RhoH, ThetaH, Theta0,   \* density bounds, in hundredths
    Elements,                     \* the <<key, value>> pairs a client may insert
    MinKey, MaxKey,               \* numeric_limits<int64_t>::min() and max()
    MaxElements,                  \* bound on the elements stored
    MaxHeight                     \* bound on the height of the calibrator tree

Scale(tree_height) == 100 * (tree_height - 1)

\* thresholds_int(tree_height, height) for a tree of two levels or more, over Scale.
Rho(tree_height, height) ==
    RhoH * (tree_height - 1) - (RhoH - Rho0) * (tree_height - height)
Theta(tree_height, height) ==
    ThetaH * (tree_height - 1) + (Theta0 - ThetaH) * (tree_height - height)

\* A window of the calibrator tree is twice as long as those below it.
WindowLength(height) ==
    LET Length[h \in 1 .. height] == IF h = 1 THEN 1 ELSE 2 * Length[h - 1]
    IN  Length[height]
WindowCapacity(height) == SegmentCapacity * WindowLength(height)

\* The constructor of DensityBounds, and what the minimum segment capacity of 32
\* gives: a window that is dense enough has an element for each of its segments.
\* A tree of MaxHeight levels has room for MaxElements.
ASSUME PackedMemoryArrayAssumption ==
    /\ SegmentCapacity \in Nat \ {0}
    /\ Rho0 \in Nat /\ RhoH \in Nat /\ ThetaH \in Nat /\ Theta0 \in Nat
    /\ Rho0 < RhoH /\ RhoH <= ThetaH /\ ThetaH < Theta0 /\ Theta0 <= 100
    /\ 2 * RhoH <= 100
    /\ \A t \in 2 .. MaxHeight : \A h \in 2 .. t : \A n \in 0 .. (WindowLength(h) - 1) :
          n * Scale(t) < Rho(t, h) * WindowCapacity(h)
    /\ MinKey \in Int /\ MaxKey \in Int
    /\ \A e \in Elements : e[1] \in Int /\ MinKey < e[1] /\ e[1] < MaxKey
    /\ MaxElements \in Nat /\ MaxHeight \in Nat \ {0}
    /\ MaxElements * 100 <= ThetaH * WindowCapacity(MaxHeight)

VARIABLES
    segments,       \* the elements of each segment, 0 .. m_number_segments - 1
    separators,     \* m_index: the separator key of each segment
    m_cardinality,  \* the number of elements
    call,           \* the operation in progress, or Idle
    ret             \* what the last find or remove returned

vars == <<segments, separators, m_cardinality, call, ret>>

Idle == [op |-> "idle"]

Keys == {e[1] : e \in Elements}

m_number_segments == Cardinality(DOMAIN segments)

HeightOf(n) == CHOOSE h \in 1 .. n : WindowLength(h) = n

m_height == HeightOf(m_number_segments)

Init ==
    /\ segments = [s \in {0} |-> <<>>]
    /\ separators = [s \in {0} |-> MaxKey]
    /\ m_cardinality = 0
    /\ call = Idle
    /\ ret = -1

-----------------------------------------------------------------------------
\* Mutant: a key equal to a separator is looked for before it.
IndexFindStrict(key) ==
    LET greater == {s \in DOMAIN segments \ {0} : key <= separators[s]}
    IN  IF key <= separators[0] THEN 0
        ELSE IF greater = {} THEN m_number_segments - 1 ELSE Min(greater) - 1

\* m_index.find: the segment before the first separator greater than the key.
index_find(key) ==
    LET greater == {s \in DOMAIN segments \ {0} : key < separators[s]}
    IN  IF key <= separators[0] THEN 0
        ELSE IF greater = {} THEN m_number_segments - 1 ELSE Min(greater) - 1

\* The first element with the key in the segment, or 0.
FirstWith(segment, key) ==
    LET found == {i \in DOMAIN segments[segment] : segments[segment][i][1] = key}
    IN  IF found = {} THEN 0 ELSE Min(found)

\* Scan from the left: the position of the first key that is not smaller.
PositionBefore(seq, key) ==
    Min({i \in DOMAIN seq : seq[i][1] >= key} \union {Len(seq) + 1})

\* Scan from the right: the position after the last key that is not greater.
PositionAfter(seq, key) ==
    Max({i \in DOMAIN seq : seq[i][1] <= key} \union {0}) + 1

\* All the elements of some segments, in order.
Joined(arrays, start, length) ==
    LET J[i \in 0 .. length] == IF i = 0 THEN <<>> ELSE J[i - 1] \o arrays[start + i - 1]
    IN  J[length]
Content(start, length) == Joined(segments, start, length)

\* The number of elements before segment s of so many, given the sizes of all.
Before(sizes, length) ==
    LET B[s \in 0 .. length] == IF s = 0 THEN 0 ELSE B[s - 1] + sizes[s - 1]
    IN  B

\* The sizes a window of so many segments may be given: none empty, none overfull.
Layouts(length, cardinality) ==
    {sizes \in [0 .. (length - 1) -> 1 .. SegmentCapacity] : Before(sizes, length)[length] = cardinality}

\* Deal the elements out, left to right.
Dealt(elements, sizes, length) ==
    [s \in 0 .. (length - 1) |->
        SubSeq(elements, Before(sizes, length)[s] + 1, Before(sizes, length)[s] + sizes[s])]

-----------------------------------------------------------------------------
\* insert(key, value)
insert(e) ==
    /\ call = Idle
    /\ m_cardinality < MaxElements
    /\ call' = [op |-> "insert", element |-> e, resized |-> FALSE]
    /\ UNCHANGED <<segments, separators, m_cardinality, ret>>

insert_empty ==
    /\ call.op = "insert"
    /\ m_cardinality = 0
    /\ segments' = [segments EXCEPT ![0] = <<call.element>>]
    /\ separators' = [separators EXCEPT ![0] = call.element[1]]
    /\ m_cardinality' = 1
    /\ call' = Idle
    /\ UNCHANGED ret

\* The segment the index gives for the pending insertion.
Target == index_find(call.element[1])

\* insert_common, when the segment has a free slot.
storage_insert_unsafe ==
    /\ call.op = "insert"
    /\ m_cardinality > 0
    /\ Len(segments[Target]) < SegmentCapacity
    /\ LET e == call.element
           i == IF Target % 2 = 0 THEN PositionBefore(segments[Target], e[1])
                                  ELSE PositionAfter(segments[Target], e[1])
       IN  /\ segments' = [segments EXCEPT ![Target] = InsertAt(@, i, e)]
           /\ separators' = IF i = 1 THEN [separators EXCEPT ![Target] = e[1]] ELSE separators
    /\ m_cardinality' = m_cardinality + 1
    /\ call' = Idle
    /\ UNCHANGED ret

\* remove(key) with no such key.
RemoveMissing(key) ==
    /\ call = Idle
    /\ m_cardinality = 0 \/ FirstWith(index_find(key), key) = 0
    /\ ret' = -1
    /\ UNCHANGED <<segments, separators, m_cardinality, call>>

\* The least elements a segment may have: thresholds(1).first * capacity, at least one.
minimum_size ==
    LET size == (Rho(m_height, 1) * SegmentCapacity) \div Scale(m_height)
    IN  Max({size, 1})

\* Mutant: the separator is not maintained.
SeparatorsKept(segment, i) == separators

\* The separator after the removal of the element at position i.  An even segment that
\* became empty takes what follows it in memory, the first key of the next segment; an
\* odd one keeps its separator.
SeparatorsWithout(segment, i) ==
    LET seq == segments[segment]
    IN  IF i > 1 THEN separators
        ELSE IF Len(seq) > 1 THEN [separators EXCEPT ![segment] = seq[2][1]]
        ELSE IF segment % 2 = 1 THEN separators
        ELSE IF m_cardinality = 1 THEN [separators EXCEPT ![0] = MinKey]
        ELSE [separators EXCEPT ![segment] = separators[segment + 1]]

\* remove(key) of a stored element.  The value -1 is taken for an element not found, and
\* the segment is left as it is.
remove(key) ==
    LET segment == index_find(key)
        i == FirstWith(segment, key)
        value == segments[segment][i][2]
        size == Len(segments[segment]) - 1
    IN  /\ call = Idle
        /\ m_cardinality > 0
        /\ i # 0
        /\ segments' = [segments EXCEPT ![segment] = RemoveAt(@, i)]
        /\ separators' = SeparatorsWithout(segment, i)
        /\ m_cardinality' = m_cardinality - 1
        /\ ret' = value
        /\ call' = IF value # -1 /\ m_number_segments > 1 /\ size < minimum_size
                   THEN [op |-> "remove", segment |-> segment] ELSE Idle

\* find(key)
find(key) ==
    /\ call = Idle
    /\ ret' = IF m_cardinality = 0 \/ FirstWith(index_find(key), key) = 0 THEN -1
              ELSE segments[index_find(key)][FirstWith(index_find(key), key)][2]
    /\ UNCHANGED <<segments, separators, m_cardinality, call>>

-----------------------------------------------------------------------------
\* The segment to rebalance: the full one, or the one that became too sparse.
Origin == IF call.op = "insert" THEN Target ELSE call.segment

WindowStart(height) == (Origin \div WindowLength(height)) * WindowLength(height)

\* num_elements_after: the elements of the window, with the one being inserted.
num_elements_after(height) ==
    LET stored == Len(Content(WindowStart(height), WindowLength(height)))
    IN  IF call.op = "insert" THEN stored + 1 ELSE stored

\* Is the density of the window within the threshold of its height?  A tree of one
\* level has theta = 1, and no rebalance for a removal.
Balanced(height) ==
    LET n == num_elements_after(height)
    IN  IF m_height = 1 THEN n <= SegmentCapacity
        ELSE IF call.op = "insert"
        THEN n * Scale(m_height) <= Theta(m_height, height) * WindowCapacity(height)
        ELSE n * Scale(m_height) >= Rho(m_height, height) * WindowCapacity(height)

\* Climb the calibrator tree, from two segments to the whole array.
WindowHeight ==
    LET balanced == {h \in 2 .. m_height : Balanced(h)}
    IN  IF balanced = {} THEN m_height ELSE Min(balanced)

Rebalances ==
    \/ call.op = "remove"
    \/ call.op = "insert" /\ m_cardinality > 0 /\ Len(segments[Target]) = SegmentCapacity

\* spread_load: the elements of the window; the new one goes into its pair of segments.
spread_load(start, length) ==
    LET pair == 2 * (Origin \div 2)
        merged == Content(pair, 2)
    IN  IF call.op = "remove" THEN Content(start, length)
        ELSE Content(start, pair - start) \o InsertAt(merged, PositionBefore(merged, call.element[1]), call.element)
                \o Content(pair + 2, start + length - pair - 2)

\* spread_insert_unsafe and finalize_insert count the element they insert.
CardinalityAfterSpread == IF call.op = "insert" THEN m_cardinality + 1 ELSE m_cardinality

\* spread_evenly, spread_unevenly and SpreadWithRewiring: share the elements of the
\* window out again; an insertion is complete.
spread ==
    LET height == WindowHeight
        start == WindowStart(height)
        length == WindowLength(height)
        inside == start .. (start + length - 1)
        loaded == spread_load(start, length)
    IN  /\ Rebalances
        /\ Balanced(height)
        /\ \E sizes \in Layouts(length, num_elements_after(height)) :
              LET dealt == Dealt(loaded, sizes, length)
              IN  /\ segments' = [s \in DOMAIN segments |->
                                    IF s \in inside THEN dealt[s - start] ELSE segments[s]]
                  /\ separators' = [s \in DOMAIN separators |->
                                    IF s \in inside THEN dealt[s - start][1][1] ELSE separators[s]]
        /\ m_cardinality' = CardinalityAfterSpread
        /\ call' = Idle
        /\ UNCHANGED ret

\* Mutant: the array is rebuilt with the segments it has.
SegmentsSame == m_number_segments

\* Twice the segments for an insertion, half of them for a removal.
SegmentsAfterResize ==
    IF call.op = "insert" THEN 2 * m_number_segments ELSE m_number_segments \div 2

\* resize_general and resize_rewire: deal all the elements out again; an insertion is
\* then tried again.
resize ==
    /\ Rebalances
    /\ ~ Balanced(WindowHeight)
    /\ \E sizes \in Layouts(SegmentsAfterResize, m_cardinality) :
          LET dealt == Dealt(Content(0, m_number_segments), sizes, SegmentsAfterResize)
          IN  /\ segments' = dealt
              /\ separators' = [s \in DOMAIN dealt |-> dealt[s][1][1]]
    /\ call' = IF call.op = "insert" THEN [call EXCEPT !.resized = TRUE] ELSE Idle
    /\ UNCHANGED <<m_cardinality, ret>>

Next ==
    \/ \E e \in Elements : insert(e)
    \/ insert_empty
    \/ storage_insert_unsafe
    \/ \E key \in Keys : RemoveMissing(key) \/ remove(key) \/ find(key)
    \/ spread
    \/ resize

\* A call that has been made runs to its end.
Fairness == WF_vars(insert_empty \/ storage_insert_unsafe \/ spread \/ resize)

SafetySpec == Init /\ [][Next]_vars

Spec == SafetySpec /\ Fairness

-----------------------------------------------------------------------------
TypeInv ==
    /\ \E h \in 1 .. MaxHeight : segments \in [0 .. (WindowLength(h) - 1) -> Seq(Elements)]
    /\ \A s \in DOMAIN segments : Len(segments[s]) <= SegmentCapacity
    /\ separators \in [DOMAIN segments -> Keys \union {MinKey, MaxKey}]
    /\ m_cardinality \in 0 .. MaxElements
    /\ call \in {Idle} \union [op : {"insert"}, element : Elements, resized : BOOLEAN]
                      \union [op : {"remove"}, segment : DOMAIN segments]
    /\ ret \in {e[2] : e \in Elements} \union {-1}

AllElements == Content(0, m_number_segments)

\* Across every in-segment insertion, removal, spread and resize, the elements read
\* from the first segment to the last are in key order.
ElementsSorted ==
    LET all == AllElements
    IN  \A i, j \in DOMAIN all : i <= j => all[i][1] <= all[j][1]

\* Between operations the separators the index holds lead to every key that is stored:
\* find and remove look in that one segment only.
IndexLeadsToKeys ==
    call = Idle =>
        \A s \in DOMAIN segments : \A i \in DOMAIN segments[s] :
            LET key == segments[s][i][1]
            IN  FirstWith(index_find(key), key) # 0

\* m_cardinality, which insert_empty, the in-segment insertion, the spread and remove
\* each maintain on their own, is the number of elements in the segments.
CardinalityExact == m_cardinality = Len(AllElements)

\* Between operations an array of several segments has none that is empty, whatever was
\* removed: ::remove asserts it of the segment it visits, and resize_general and
\* spread_save take the first key of every segment they fill.
NoEmptySegment ==
    call = Idle /\ m_number_segments > 1 =>
        \A s \in DOMAIN segments : segments[s] # <<>>

\* What every operation relies on when it starts: the elements are in order and can be found
\* through the separators, no segment is empty, and the cardinality is their number.
WellFormed == TypeInv /\ ElementsSorted /\ IndexLeadsToKeys /\ CardinalityExact /\ NoEmptySegment

\* The segment the index gives is never empty when ::remove looks for a key in it
\* ("Empty segment!").
RemoveVisitsNonEmpty ==
    call = Idle /\ m_cardinality > 0 =>
        \A key \in Keys : segments[index_find(key)] # <<>>

\* One resize makes enough room: the insertion that is tried again finds a free slot or
\* a window to spread, and never resizes a second time.
RetrySucceeds ==
    call.op = "insert" /\ call.resized /\ Rebalances => Balanced(WindowHeight)

\* Every insertion and every rebalance ends.
CallsReturn == call # Idle ~> call = Idle

\* The array is the ordered collection that pma/interface.hpp describes.
BagOf(seq) == [e \in Range(seq) |-> Cardinality({i \in DOMAIN seq : seq[i] = e})]
Map == INSTANCE OrderedMap WITH content <- BagOf(AllElements)
ImplementsMap == Map!Spec
=============================================================================
