----------------------------- MODULE BTreePMACC5 -----------------------------
(***************************************************************************)
(* class BTreePMACC5 (pma/btree/btreepmacc5.cpp): a packed memory array    *)
(* that is rebalanced evenly, with a static index and bulk loading.        *)
(*                                                                         *)
(* The class is sequential: a call is one action.  The operators below are *)
(* its methods; one that changes the array takes it and returns it.  `new' *)
(* is the element of an insertion, in a sequence of one, or <<>>.          *)
(***************************************************************************)
EXTENDS Segments

CONSTANTS
    Elements,          \* the <<key, value>> pairs a client may insert
    Keys,              \* the keys a client may look for
    Intervals,         \* the <<min, max>> pairs a client may ask for
    Batches,           \* the sorted sequences of elements a client may load
    MaxElements,       \* bound on the elements stored
    PastTheSizes       \* what may be read past the last entry of m_segment_sizes

\* A window that is not too sparse has an element for each of its segments, which the
\* minimum capacity of 8 gives with the default bounds.
BTreePMACC5Assumption ==
    /\ PastTheSizes \subseteq Nat
    /\ \A e \in Elements : MinKey < e[1] /\ e[1] < MaxKey

VARIABLES
    pma,     \* m_storage and m_index
    ret      \* <<op, value>>: the last update and what it returned, or -1

vars == <<pma, ret>>

\* PMA::PMA and alloc_workspace: one segment, no element.
Init ==
    /\ pma = [segs |-> [s \in {0} |-> <<>>], seps |-> [s \in {0} |-> MaxKey], card |-> 0]
    /\ ret = <<"new", -1>>

empty(st) == st.card = 0

\* get_minimum: the first key of a segment.
get_minimum(st, s) == st.segs[s][1][1]

-----------------------------------------------------------------------------
insert_empty(st, e) ==
    [set_separator_key(st, 0, e[1]) EXCEPT !.segs[0] = <<e>>, !.card = 1]

\* The array with the element, and whether it is the new minimum of the segment.
InsertedAt(st, s, e, i) ==
    [st |-> [st EXCEPT !.segs[s] = InsertAt(@, i, e), !.card = @ + 1], minimum |-> i = 1]
storage_insert_unsafe(st, s, e) ==
    InsertedAt(st, s, e, IF s % 2 = 0 THEN PositionBefore(st.segs[s], e[1])
                         ELSE PositionAfter(st.segs[s], e[1]))

\* storage_insert_unsafe and the update of the separator that follows every call of it.
WithSeparator(result, s, e) ==
    IF result.minimum THEN set_separator_key(result.st, s, e[1]) ELSE result.st
InsertInto(st, s, e) == WithSeparator(storage_insert_unsafe(st, s, e), s, e)

\* spread_insert_unsafe: a pair of segments copied out with the new element in it.
spread_insert_unsafe(elements, e) == InsertBefore(elements, e)

\* spread, step 1: the elements of the window; the new one goes into its pair of segments.
Compacted(st, start, length, pair, new) ==
    IF new = <<>> THEN Window(st.segs, start, length)
    ELSE Window(st.segs, start, pair - start)
            \o spread_insert_unsafe(Window(st.segs, pair, 2), new[1])
            \o Window(st.segs, pair + 2, start + length - pair - 2)

\* The array with segments dealt out from start on, and their separators.
WithSegments(st, start, dealt, added) ==
    [segs |-> Replaced(st.segs, start, dealt), seps |-> Replaced(st.seps, start, FirstKeys(dealt)),
     card |-> st.card + added]
SharedOut(st, start, length, elements, added) ==
    WithSegments(st, start, Dealt(elements, EvenSizes(length, Len(elements))), added)

\* spread: the window shared out evenly, with its separators.
spread(st, start, length, s, new) ==
    SharedOut(st, start, length, Compacted(st, start, length, 2 * (s \div 2), new), Len(new))

\* An array of segments that were just dealt out.
NewArray(dealt, card) == [segs |-> dealt, seps |-> FirstKeys(dealt), card |-> card]
SharedAnew(elements, length) == NewArray(Dealt(elements, EvenSizes(length, Len(elements))), Len(elements))
NewLength(st, new) == IF new = <<>> THEN NumSegments(st) \div 2 ELSE 2 * NumSegments(st)
EndingAbove(st, key) == {s \in DOMAIN st.segs : key < Last(st.segs[s])[1]}

\* Mutant: an element above all the others is not put into the last segment.
InsertResizedForgets(st, e, above) == IF above = {} THEN st ELSE InsertInto(st, Min(above), e)

\* The new element goes into the first segment that ends above it, or into the last one.
InsertResized(st, e, above) ==
    InsertInto(st, IF above = {} THEN NumSegments(st) - 1 ELSE Min(above), e)

\* resize: twice the segments or half of them, all the elements shared out evenly.
Resized(st, new) == IF new = <<>> THEN st ELSE InsertResized(st, new[1], EndingAbove(st, new[1][1]))
resize(st, new) == Resized(SharedAnew(Content(st), NewLength(st, new)), new)

\* rebalance: the elements of the window around the segment at a height, the new one counted.
num_elements(st, s, height, new) == SumSizes(st.segs, WindowOf(s, height)) + Len(new)

\* Is the window dense enough, or sparse enough?  With one level rho is 0 and theta 1.
Acceptable(tree_height, height, n, new) ==
    IF tree_height = 1 THEN n <= SegmentCapacity
    ELSE IF new = <<>> THEN NotBelow(tree_height, height, n) ELSE NotAbove(tree_height, height, n)
Balanced(st, s, height, new) == Acceptable(Height(st), height, num_elements(st, s, height, new), new)

\* Climb the calibrator tree from the pair of segments to the root.
WindowHeight(st, s, new) ==
    LET balanced == {h \in 2 .. Height(st) : Balanced(st, s, h, new)}
    IN  IF balanced = {} THEN Height(st) ELSE Min(balanced)

RebalanceAt(st, s, new, height) ==
    IF Balanced(st, s, height, new)
    THEN spread(st, WindowStart(s, height), WindowLength(height), s, new)
    ELSE resize(st, new)
rebalance(st, s, new) == RebalanceAt(st, s, new, WindowHeight(st, s, new))

insert_common(st, s, e) ==
    IF Len(st.segs[s]) = SegmentCapacity THEN rebalance(st, s, <<e>>) ELSE InsertInto(st, s, e)

insert(e) ==
    /\ pma.card < MaxElements
    /\ pma' = IF empty(pma) THEN insert_empty(pma, e)
              ELSE insert_common(pma, index_find(pma, e[1]), e)
    /\ ret' = <<"insert", -1>>

-----------------------------------------------------------------------------
\* thresholds(1).first * capacity, at least one.
minimum_size(st) ==
    Max({1, (Rho(Height(st), 1) * SegmentCapacity) \div Scale(Height(st))})

\* The separator after the removal of the element at position i.  An even segment that
\* became empty takes what follows in memory, the first key of its odd neighbour; an odd
\* one keeps its separator.
SeparatorWithout(st, s, i) ==
    IF i > 1 THEN st.seps[s]
    ELSE IF Len(st.segs[s]) > 1 THEN st.segs[s][2][1]
    ELSE IF s % 2 = 1 THEN st.seps[s]
    ELSE IF st.card = 1 THEN MinKey
    ELSE st.seps[s + 1]

Without(st, s, i) ==
    [set_separator_key(st, s, SeparatorWithout(st, s, i)) EXCEPT !.segs[s] = RemoveAt(@, i), !.card = @ - 1]
TooSmall(st, s) == NumSegments(st) > 1 /\ Len(st.segs[s]) < minimum_size(st)
Shrunk(st, s, value) == IF value # -1 /\ TooSmall(st, s) THEN rebalance(st, s, <<>>) ELSE st

\* remove(key): -1 when there is no such key; a segment that became too small is rebalanced,
\* unless the value was -1.
RemoveAtPosition(s, i) ==
    IF empty(pma) \/ i = 0 THEN ret' = <<"remove", -1>> /\ UNCHANGED pma
    ELSE /\ ret' = <<"remove", pma.segs[s][i][2]>>
         /\ pma' = Shrunk(Without(pma, s, i), s, pma.segs[s][i][2])
RemoveFrom(s, key) == RemoveAtPosition(s, FirstWith(pma.segs[s], key))
remove(key) == RemoveFrom(index_find(pma, key), key)

find(st, key) ==
    LET s == index_find(st, key)
        i == FirstWith(st.segs[s], key)
    IN  IF empty(st) \/ i = 0 THEN -1 ELSE st.segs[s][i][2]

-----------------------------------------------------------------------------
\* Iterator, next_sequence, hasNext and next: the elements visited.  (The constructor
\* raises when the index gives the bounds of an interval in the wrong order.)
Iterator(st, interval) == IF empty(st) THEN <<>> ELSE Scanned(st, interval[1], interval[2])

sum(st, interval) ==
    SumOf(IF \/ interval[1] > interval[2] \/ empty(st)
             \/ index_find_last(st, interval[2]) < index_find_first(st, interval[1])
          THEN <<>> ELSE Scanned(st, interval[1], interval[2]))

-----------------------------------------------------------------------------
\* Bulk loading.  A run (BlkRunInfo) is a part of the batch, from position first on, for
\* some segments in a row; card is what they will hold.

\* load_generate_runs: the elements of the batch up to the minimum of the next segment.
load_generate_runs(st, batch) ==
    LET Limit(s) == IF s + 1 < NumSegments(st) THEN get_minimum(st, s + 1) ELSE MaxKey
        RunsFrom[i \in 1 .. (Len(batch) + 1)] ==
            LET s == index_find_first(st, batch[i][1])
                next == Min({j \in (i + 1) .. Len(batch) : batch[j][1] > Limit(s)} \union {Len(batch) + 1})
            IN  IF i > Len(batch) THEN <<>>
                ELSE <<[first |-> i, length |-> next - i, segment |-> s, segments |-> 1, valid |-> TRUE,
                        card |-> Len(st.segs[s]) + next - i]>> \o RunsFrom[next]
    IN  RunsFrom[1]

SegmentsOf(run) == run.segment .. (run.segment + run.segments - 1)

\* The other valid runs in the window around run i.
RunsInside(runs, i, height) ==
    {j \in DOMAIN runs \ {i} :
        runs[j].valid /\ SegmentsOf(runs[j]) \subseteq WindowOf(runs[i].segment, height)}

\* The elements in the window around run i: those of the runs, and of the segments of none.
FusedElements(st, runs, i, height) ==
    LET inside == RunsInside(runs, i, height) \union {i}
        taken == UNION {SegmentsOf(runs[j]) : j \in inside}
    IN  FoldSet(LAMBDA j, n : n + runs[j].card, 0, inside)
            + SumSizes(st.segs, WindowOf(runs[i].segment, height) \ taken)

\* Climb the calibrator tree while the window of run i is too dense.
FusedHeight(st, runs, i) ==
    LET fits == {h \in 1 .. Height(st) : NotAbove(Height(st), h, FusedElements(st, runs, i, h))}
    IN  IF fits = {} THEN Height(st) ELSE Min(fits)

\* One round of load_fuse_runs: run i takes the runs of its window over.
FusedRun(run, taken, height, card) ==
    [run EXCEPT !.segment = WindowStart(@, height), !.segments = WindowLength(height), !.card = card,
                !.first = Min({r.first : r \in taken}),
                !.length = FoldSet(LAMBDA r, n : n + r.length, 0, taken)]
FuseInside(st, runs, i, height, inside) ==
    [j \in DOMAIN runs |->
        IF j = i THEN FusedRun(runs[i], {runs[k] : k \in inside \union {i}}, height,
                               FusedElements(st, runs, i, height))
        ELSE IF j \in inside THEN [runs[j] EXCEPT !.valid = FALSE] ELSE runs[j]]
FuseAt(st, runs, i, height) == FuseInside(st, runs, i, height, RunsInside(runs, i, height))
FuseRun(st, runs, i) == FuseAt(st, runs, i, FusedHeight(st, runs, i))

\* Too dense for the whole array?
TooDense(st, run) ==
    run.segments = NumSegments(st) /\ ~ NotAbove(Height(st), Height(st), run.card)

\* load_fuse_runs: the runs after fusion, and whether the array has to be resized.
Fused(st, runs, i) == [runs |-> runs, resize |-> TooDense(st, runs[i])]
FuseNext(st, before, i) ==
    IF before.resize \/ ~ before.runs[i].valid THEN before
    ELSE Fused(st, FuseRun(st, before.runs, i), i)
load_fuse_runs(st, runs) ==
    FoldLeft(LAMBDA before, i : FuseNext(st, before, i), [runs |-> runs, resize |-> FALSE],
             [i \in DOMAIN runs |-> i])

\* Mutant: the separator of the segment is left as it was.
LoadKeepsSeparator(st, s, run) ==
    [st EXCEPT !.segs[s] = Merge(@, run), !.card = @ + Len(run)]

\* load_merge_single: the run merged into its segment.
Merged(st, s, merged, added) ==
    [set_separator_key(st, s, merged[1][1]) EXCEPT !.segs[s] = merged, !.card = @ + added]
load_merge_single(st, s, run) == Merged(st, s, Merge(st.segs[s], run), Len(run))

\* load_merge_multi: the run merged into a window, which is shared out evenly.
load_merge_multi(st, start, length, run) ==
    SharedOut(st, start, length, Merge(Window(st.segs, start, length), run), Len(run))

\* load_spread: the runs one by one.
PartOf(batch, run) == SubSeq(batch, run.first, run.first + run.length - 1)
LoadRun(st, run, part) ==
    IF ~ run.valid THEN st
    ELSE IF run.segments > 1 THEN load_merge_multi(st, run.segment, run.segments, part)
    ELSE IF run.length > 1 THEN load_merge_single(st, run.segment, part)
    ELSE insert_common(st, run.segment, part[1])
load_spread(st, batch, runs) ==
    FoldLeft(LAMBDA array, run : LoadRun(array, run, PartOf(batch, run)), st, runs)

\* The array of as many segments as a density, in hundredths, needs for the elements.
Rebuilt(elements, density) ==
    SharedAnew(elements, hyperceil((Len(elements) * 100 + density - 1) \div density) \div SegmentCapacity)

\* load_resize: the array and the batch merged into a new array.  The segments are read by
\* pairs: with a single segment its size is read past the end of m_segment_sizes, and the
\* slots it stands for, past the end of the keys, are taken to be zero.
ReadByPairs(st, past) ==
    Content(st) \o IF NumSegments(st) = 1 THEN [i \in 1 .. past |-> <<0, 0>>] ELSE <<>>
load_resize(st, batch, past) ==
    Rebuilt(SubSeq(Merge(batch, ReadByPairs(st, past)), 1, st.card + Len(batch)), ThetaH)

load_empty_single(st, batch) ==
    [set_separator_key(st, 0, batch[1][1]) EXCEPT !.segs[0] = batch, !.card = Len(batch)]

\* load_empty_multi: half way between the densities of the root and of the leaves.
load_empty_multi(batch) == Rebuilt(batch, (ThetaH + Theta0) \div 2)

load_empty(st, batch) ==
    IF SegmentCapacity * Theta0 >= 100 * Len(batch)
    THEN load_empty_single(st, batch) ELSE load_empty_multi(batch)

LoadFused(batch, fused) ==
    IF fused.resize THEN \E past \in PastTheSizes : pma' = load_resize(pma, batch, past)
    ELSE pma' = load_spread(pma, batch, fused.runs)
load_sorted(batch) ==
    /\ pma.card + Len(batch) <= MaxElements
    /\ ret' = <<"load", -1>>
    /\ \/ batch = <<>> /\ UNCHANGED pma
       \/ batch # <<>> /\ empty(pma) /\ pma' = load_empty(pma, batch)
       \/ batch # <<>> /\ ~ empty(pma) /\ LoadFused(batch, load_fuse_runs(pma, load_generate_runs(pma, batch)))

Next ==
    \/ \E e \in Elements : insert(e)
    \/ \E key \in Keys : remove(key)
    \/ \E batch \in Batches : load_sorted(batch)

Spec == Init /\ [][Next]_vars

-----------------------------------------------------------------------------
\* What every method may rely on when it is called: the elements sorted over the segments,
\* no segment overfull or, among several, empty (get_minimum, resize and remove assert it),
\* every separator the first key of its segment, and the cardinality exact.
WellFormed ==
    /\ SortedByKey(Content(pma))
    /\ pma.card = Len(Content(pma))
    /\ \A s \in DOMAIN pma.segs :
          /\ Len(pma.segs[s]) <= SegmentCapacity
          /\ NumSegments(pma) > 1 => pma.segs[s] # <<>>
          /\ pma.segs[s] # <<>> => pma.seps[s] = get_minimum(pma, s)

\* Whatever is inserted, removed and loaded, the array is the collection that
\* pma/interface.hpp describes: every find, scan and sum sees what is stored.
Reads ==
    [found |-> [key \in Keys |-> find(pma, key)],
     visited |-> [interval \in {i \in Intervals : i[1] <= i[2]} |-> Iterator(pma, interval)],
     sum |-> [interval \in Intervals |-> sum(pma, interval)]]
Map == INSTANCE OrderedCollection WITH content <- BagOf(Content(pma)), reads <- Reads
ImplementsMap == Map!Spec
=============================================================================
