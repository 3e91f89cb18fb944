----------------------------- MODULE APMA_BH07_v2 -----------------------------
(***************************************************************************)
(* class APMA_BH07_v2 (pma/adaptive/bh07_v2): the adaptive packed memory   *)
(* array of Bender and Hu, which elements are only added to.  The arrays   *)
(* here are smaller than an extent, so that nothing is rewired: what the   *)
(* rewired spread does is the subject of BH07SpreadWithRewiring, and the   *)
(* circular array below the predictor that of Predictor.  Methods whose    *)
(* text is that of BTreePMACC5 are its operators.                          *)
(*                                                                         *)
(* An insertion that finds its segment full and the array too dense makes  *)
(* the array larger, and is then tried again: `pending' is its element in  *)
(* between.                                                                *)
(***************************************************************************)
EXTENDS Segments

CONSTANTS
    Elements, Keys, Intervals,     \* as in BTreePMACC5
    MaxElements,                   \* bound on the elements stored
    PredictorScale,                \* m_predictor_scale
    Past                           \* the counts that may be read past the end of the weights

\* With a scale of up to 2 the array never enlarges an empty predictor beyond its buffer.
BH07Assumption == PredictorScale \in 1 .. 2 /\ Past \subseteq 0 .. 1000

VARIABLES
    pma,           \* m_storage and m_index
    ret,           \* <<op, value>>: the last update and what it returned, or -1
    predictor,     \* [queue, capacity, count_max]: m_predictor
    apma,          \* what AdaptiveRebalancing made of the last rebalance
    pending        \* the element to be inserted again, or <<>>

vars == <<pma, ret, predictor, apma, pending>>

C5 == INSTANCE BTreePMACC5 WITH Batches <- {}, PastTheSizes <- {}
Q == INSTANCE PredictorQueue WITH queue <- predictor.queue, capacity <- predictor.capacity,
         count_max <- predictor.count_max, Pointers <- {}, Sizes <- {}, Counts <- {}

Init ==
    /\ C5!Init
    /\ predictor = [queue |-> <<>>, capacity |-> Max({4, PredictorScale}), count_max |-> 1]
    /\ apma = [partitions |-> <<>>, asserted |-> TRUE]
    /\ pending = <<>>

-----------------------------------------------------------------------------
\* Class AdaptiveRebalancing: a window is halved again and again, each time where the
\* counts of the predictor over the free slots come closest to each other on the two sides.
\*
\* W is the vector of weights, in the order of their pointers, whose first index is 0 in
\* the code; a part has those from weights_start on, of weights_length.  The second half
\* is given its start relative to that of the part, and the loop reads the weight that
\* follows those of the part, which is `past' where there is none.  Indices and sums are
\* unsigned and wrap around at Word.

Word == 2 ^ 12

NotFound == Word - 1      \* numeric_limits<size_t>::max()

CeilDiv(a, b) == (a + b - 1) \div b

\* The elements the half of a window, of a height, must and may have.
size_min(tree_height, height) ==
    CeilDiv(Rho(tree_height, height) * WindowLength(height) * SegmentCapacity, Scale(tree_height))
size_max(tree_height, height, can_fill_segments) ==
    LET allowed == (Theta(tree_height, height) * WindowLength(height) * SegmentCapacity) \div Scale(tree_height)
        free == WindowLength(height) * SegmentCapacity - WindowLength(height)
    IN  IF can_fill_segments THEN allowed ELSE Min({allowed, free})

\* The sanity check at the start of compute_rec.
Asserted(tree_height, height, n) == NotBelow(tree_height, height, n) /\ NotAbove(tree_height, height, n)

CountAt(W, i, past) == IF i < Len(W) THEN W[i + 1].m_count ELSE past
PointerAt(W, i) == W[i + 1].m_pointer * SegmentCapacity + 1
SumOfCounts(W, I) == FoldSet(LAMBDA i, total : total + W[i + 1].m_count, 0, I)

\* |left / denom_left - right / denom_right|, as a fraction.
Value(left, right, denom_left, denom_right) ==
    LET l == Max({1, denom_left})
        r == Max({1, denom_right})
        d == left * r - right * l
    IN  [num |-> IF d < 0 THEN - d ELSE d, den |-> l * r]
Less(a, b) == a.num * b.den < b.num * a.den

\* The search for the split of a part: its state when the first half has `start' elements.
FirstSplit(W, weights_start, weights_end, index_start, start, capacity, n) ==
    LET all == weights_start .. (weights_end - 1)
        before == {i \in all : W[i + 1].m_pointer * SegmentCapacity < index_start + start}
        pos == weights_start + Cardinality(before)
        left == SumOfCounts(W, before)
        right == SumOfCounts(W, all \ before)
    IN  [left |-> left, right |-> right,
         next |-> IF pos < weights_end THEN pos ELSE 0,
         ptr |-> IF pos < weights_end THEN PointerAt(W, pos) ELSE NotFound,
         opt |-> Value(left, right, capacity - start, capacity - (n - start)),
         splitnum |-> start, weights_split |-> pos - weights_start]

\* One iteration, in which the first half is given one element more.
NextSplit(W, weights_start, weights_end, index_start, capacity, n, past, st, i) ==
    LET passes == index_start + i = st.ptr
        count == CountAt(W, weights_end, past)
        left == IF passes THEN (st.left + count) % Word ELSE st.left
        right == IF passes THEN (st.right - count) % Word ELSE st.right
        next == IF passes THEN st.next + 1 ELSE st.next
        value == Value(left, right, capacity - i, capacity - (n - i))
        better == Less(value, st.opt)
    IN  [left |-> left, right |-> right, next |-> next,
         ptr |-> IF ~ passes THEN st.ptr ELSE IF next < weights_end THEN PointerAt(W, next) ELSE NotFound,
         opt |-> IF better THEN value ELSE st.opt,
         splitnum |-> IF better THEN i ELSE st.splitnum,
         weights_split |-> IF better THEN (next - weights_start) % Word ELSE st.weights_split]

\* Mutant: the first half need not leave to the second no more than that may have.
SplitFillsRight(tree_height, height, n, segment_start, W, weights_start, weights_length, can_fill_segments, past) ==
    [splitnum |-> size_min(tree_height, height), weights_split |-> 0]

\* Where a part is halved; height is that of the halves.
Split(tree_height, height, n, segment_start, W, weights_start, weights_length, can_fill_segments, past) ==
    LET lo == size_min(tree_height, height)
        hi == size_max(tree_height, height, can_fill_segments)
        start == Max({lo, n - hi})
        end == Min({hi, n - lo})
        weights_end == (weights_start + weights_length) % Word
        capacity == WindowLength(height) * SegmentCapacity
        index_start == SegmentCapacity * segment_start
        \* The set of the one state makes TLC evaluate it once.
        Following(state, i) ==
            CHOOSE next \in {NextSplit(W, weights_start, weights_end, index_start, capacity, n, past, st, i) :
                                st \in {state}} : TRUE
    IN  FoldLeft(Following,
                 FirstSplit(W, weights_start, weights_end, index_start, start, capacity, n),
                 [k \in 1 .. (end - start) |-> start + k])

\* compute_rec: the partitions, and whether the sanity check of every part held.
Joined(asserted, left, right) ==
    [partitions |-> left.partitions \o right.partitions,
     asserted |-> asserted /\ left.asserted /\ right.asserted]

RECURSIVE compute_rec(_, _, _, _, _, _, _, _, _, _)
Halved(tree_height, height, n, segment_start, W, weights_start, weights_length, resize, can_fill, past, split) ==
    Joined(Asserted(tree_height, height, n),
           compute_rec(tree_height, height - 1, split.splitnum, segment_start, W, weights_start,
                       split.weights_split, resize, can_fill, past),
           compute_rec(tree_height, height - 1, n - split.splitnum, segment_start + WindowLength(height - 1),
                       W, split.weights_split, (weights_length - split.weights_split) % Word,
                       resize, can_fill, past))
compute_rec(tree_height, height, n, segment_start, W, weights_start, weights_length, resize, can_fill_segments, past) ==
    IF height = 1 \/ weights_length = 0 \/ (resize /\ height = 2)
    THEN [partitions |-> <<[m_cardinality |-> n, m_segments |-> WindowLength(height)]>>,
          asserted |-> Asserted(tree_height, height, n)]
    ELSE Halved(tree_height, height, n, segment_start, W, weights_start, weights_length, resize,
                can_fill_segments, past,
                Split(tree_height, height - 1, n, segment_start, W, weights_start, weights_length,
                      can_fill_segments, past))

\* weighted_elements: the items of the predictor that point into a window, sorted.
items(queue, min, max) ==
    SortSeq(SelectSeq(queue, LAMBDA item : min <= item.m_pointer /\ item.m_pointer <= max),
            LAMBDA a, b : a.m_pointer < b.m_pointer)

compute_all(tree_height, height, n, window_start, W, resize, can_fill_segments, past) ==
    compute_rec(tree_height, height, n, window_start, W, 0, Len(W), resize, can_fill_segments, past)

\* partitions: when the array is resized the pointers are still those of the old array.
partitions(tree_height, height, n, window_start, queue, resize, can_fill_segments, past) ==
    compute_all(tree_height, height, n, window_start,
                items(queue, window_start, window_start + WindowLength(height) - 1),
                resize, can_fill_segments, past)

\* The sizes of the segments that the partitions give.
PartitionSizes(parts) ==
    LET all == FlattenSeq([i \in DOMAIN parts |->
                  LET even == EvenSizes(parts[i].m_segments, parts[i].m_cardinality)
                  IN  [j \in 1 .. parts[i].m_segments |-> even[j - 1]]])
    IN  [s \in 0 .. (Len(all) - 1) |-> all[s + 1]]

\* Every part has an element for each of its segments and no more than its slots.
Fit(parts) ==
    \A i \in DOMAIN parts :
        /\ parts[i].m_segments <= parts[i].m_cardinality
        /\ parts[i].m_cardinality <= parts[i].m_segments * SegmentCapacity

-----------------------------------------------------------------------------
\* Class APMA_BH07_v2.

empty(st) == C5!empty(st)
insert_empty(st, e) == C5!insert_empty(st, e)
storage_insert_unsafe(st, s, e) == C5!storage_insert_unsafe(st, s, e)

\* Predictor::update, by the queue it implements.
update(p, segment) == [p EXCEPT !.queue = Q!Updated(p.queue, p.capacity, p.count_max, segment)]

\* rebalance: the least height, from 2 on, at which the window is not too dense.
Balanced(st, s) ==
    {h \in 2 .. Height(st) : NotAbove(Height(st), h, SumSizes(st.segs, WindowOf(s, h)) + 1)}

\* The elements put into the segments of the window as the partitions say.
spread_save(st, start, elements, parts) ==
    LET dealt == Dealt(elements, PartitionSizes(parts))
    IN  [segs |-> Replaced(st.segs, start, dealt), seps |-> Replaced(st.seps, start, FirstKeys(dealt)),
         card |-> st.card + 1]

\* spread_insert_unsafe: before the first element of its pair that is not smaller.
spread_insert_unsafe(elements, e) == C5!spread_insert_unsafe(elements, e)
spread_load(st, start, length, s, e) == C5!Compacted(st, start, length, 2 * (s \div 2), <<e>>)
spread_two_copies(st, start, length, s, e, parts) ==
    spread_save(st, start, spread_load(st, start, length, s, e), parts)

\* Mutant: the last element is read from the slot before it.
ResizeRereads(st, parts) ==
    LET elements == [Content(st) EXCEPT ![st.card] = Content(st)[st.card - 1]]
        dealt == Dealt(elements, PartitionSizes(parts))
    IN  [segs |-> dealt, seps |-> FirstKeys(dealt), card |-> st.card]

\* resize_general: the elements dealt out over twice the segments.
resize_general(st, parts) ==
    LET dealt == Dealt(Content(st), PartitionSizes(parts))
    IN  [segs |-> dealt, seps |-> FirstKeys(dealt), card |-> st.card]

\* The predictor for a larger array: its pointers are doubled by AdaptiveRebalancing.
ResizedPredictor(p, height) ==
    [queue |-> Q!Doubled(p.queue), capacity |-> Max({4, height * PredictorScale}), count_max |-> height]

\* The partitions for a window at a height, the new element counted, or for the array twice
\* as large, without it and with a free slot in every segment.
apma_partitions(st, h, start, resize, past) ==
    IF resize
    THEN partitions(Height(st) + 1, Height(st) + 1, st.card, 0, predictor.queue, TRUE, FALSE, past)
    ELSE partitions(Height(st), h, Len(Window(st.segs, start, WindowLength(h))) + 1, start,
                    predictor.queue, FALSE, TRUE, past)

\* A window is spread with the new element in it.
Spread(s, e) ==
    LET h == Min(Balanced(pma, s))
        start == WindowStart(s, h)
    IN  /\ Balanced(pma, s) # {}
        /\ \E past \in Past : \E result \in {apma_partitions(pma, h, start, FALSE, past)} :
              /\ apma' = result
              /\ pma' = spread_two_copies(pma, start, WindowLength(h), s, e, result.partitions)
        /\ pending' = <<>> /\ ret' = <<"insert", -1>>
        /\ UNCHANGED predictor

\* The array is made larger; the element is to be inserted again.
Resize(s, e) ==
    /\ Balanced(pma, s) = {}
    /\ \E past \in Past : \E result \in {apma_partitions(pma, 0, 0, TRUE, past)} :
          /\ apma' = result
          /\ pma' = resize_general(pma, result.partitions)
    /\ predictor' = ResizedPredictor(predictor, Height(pma) + 1)
    /\ pending' = <<e>>
    /\ UNCHANGED ret

rebalance(s, e) == Spread(s, e) \/ Resize(s, e)

insert_common(s, e) ==
    \/ Len(pma.segs[s]) = SegmentCapacity /\ rebalance(s, e)
    \/ /\ Len(pma.segs[s]) < SegmentCapacity
       /\ pma' = C5!InsertInto(pma, s, e)
       /\ predictor' = update(predictor, s)
       /\ pending' = <<>> /\ ret' = <<"insert", -1>>
       /\ UNCHANGED apma

insert(e) ==
    \/ /\ empty(pma)
       /\ pma' = insert_empty(pma, e)
       /\ predictor' = update(predictor, 0)
       /\ pending' = <<>> /\ ret' = <<"insert", -1>>
       /\ UNCHANGED apma
    \/ ~ empty(pma) /\ insert_common(index_find(pma, e[1]), e)

find(st, key) == C5!find(st, key)
Iterator(st, interval) == C5!Iterator(st, interval)
sum(st, interval) == C5!sum(st, interval)

Next ==
    \/ pending = <<>> /\ pma.card < MaxElements /\ \E e \in Elements : insert(e)
    \/ pending # <<>> /\ insert(pending[1])

Spec == Init /\ [][Next]_vars

-----------------------------------------------------------------------------
Reads ==
    [found |-> [key \in Keys |-> find(pma, key)],
     visited |-> [interval \in {i \in Intervals : i[1] <= i[2]} |-> Iterator(pma, interval)],
     sum |-> [interval \in Intervals |-> sum(pma, interval)]]
Map == INSTANCE OrderedCollection WITH
           content <- BagOf(Content(pma)), reads <- Reads, Batches <- {}

\* The insertions, those tried twice included, and what find, the iterator and sum return
\* are as pma/interface.hpp describes, whatever the predictor holds.
ImplementsMap == Map!Spec

\* The sanity check of compute_rec, and that no segment is left empty or overfull, although
\* a half may be given the weights of the other half or one that does not exist; after a
\* resize every segment has a free slot, so that the insertion tried again succeeds.
PartitionsFit ==
    /\ apma.asserted /\ Fit(apma.partitions)
    /\ pending # <<>> => \A s \in DOMAIN pma.segs : Len(pma.segs[s]) < SegmentCapacity
=============================================================================
