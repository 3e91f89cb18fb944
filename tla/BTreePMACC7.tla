----------------------------- MODULE BTreePMACC7 -----------------------------
(***************************************************************************)
(* class BTreePMACC7 (pma/btree/btreepmacc7.cpp): BTreePMACC5 over rewired *)
(* memory.  Once the array fills an extent, a window of at least an extent *)
(* is rebalanced by SpreadWithRewiring, and merged with a batch by         *)
(* SpreadWithRewiringBulkLoading; the module BulkSpreadWithRewiring has    *)
(* their slots, extents and buffers.  Here they are what they do to the    *)
(* elements of the segments.                                               *)
(*                                                                         *)
(* Methods whose text is that of BTreePMACC5 are its operators.  The       *)
(* method resize, with resize_rewire, is never called: rebalance calls     *)
(* resize_general.                                                         *)
(***************************************************************************)
EXTENDS Segments

CONSTANTS
    Elements, Keys, Intervals, Batches,    \* as in BTreePMACC5
    MaxElements,                           \* bound on the elements stored
    SegmentsPerExtent                      \* extent size / segment size

BTreePMACC7Assumption == SegmentsPerExtent \in {2 ^ i : i \in 1 .. 10}

VARIABLES
    pma,     \* m_storage and m_index
    ret,     \* <<op, value>>: the last update and what it returned, or -1
    alive    \* FALSE after an access to memory that is not the program's

vars == <<pma, ret, alive>>

\* alloc_workspace always has a second size, zero, next to a single segment.
C5 == INSTANCE BTreePMACC5 WITH PastTheSizes <- {0}

Init == C5!Init /\ alive = TRUE

empty(st) == C5!empty(st)
get_minimum(st, s) == C5!get_minimum(st, s)
insert_empty(st, e) == C5!insert_empty(st, e)
storage_insert_unsafe(st, s, e) == C5!storage_insert_unsafe(st, s, e)
spread_insert_unsafe(elements, e) == C5!spread_insert_unsafe(elements, e)

\* alloc_workspace: rewired memory is used from one extent on.  (extend keeps it.)
use_rewired_memory(st) == NumSegments(st) >= SegmentsPerExtent

\* The condition of spread, load_spread and load_resize.
UseRewiring(st, length) == use_rewired_memory(st) /\ length >= SegmentsPerExtent

-----------------------------------------------------------------------------
\* update_segment_sizes: n elements over the extents, and over the segments of each.
segment_sizes(length, n) ==
    LET extents == EvenSizes(length \div SegmentsPerExtent, n)
    IN  [s \in 0 .. (length - 1) |->
            EvenSizes(SegmentsPerExtent, extents[s \div SegmentsPerExtent])[s % SegmentsPerExtent]]

\* Mutant: an element that is not smaller than any separator is forgotten.
UpdateIndexForgets(st, window, new) ==
    LET above == {s \in window : new[1][1] < get_minimum(st, s)}
        indexed == [st EXCEPT !.seps =
                       [s \in DOMAIN @ |-> IF s \in window THEN get_minimum(st, s) ELSE @[s]]]
        target == Max({Min(window), Min(above) - 1})
        inserted == storage_insert_unsafe(indexed, target, new[1]).st
    IN  IF new = <<>> \/ above = {} THEN indexed
        ELSE set_separator_key(inserted, target, Min({indexed.seps[target], new[1][1]}))

\* update_index: the separators of the window.  The new element goes into the segment
\* before the first one with a greater minimum, or into the last one.
update_index(st, window, new) ==
    LET above == {s \in window : new[1][1] < get_minimum(st, s)}
        indexed == [st EXCEPT !.seps =
                       [s \in DOMAIN @ |-> IF s \in window THEN get_minimum(st, s) ELSE @[s]]]
        target == IF above = {} THEN Max(window) ELSE Max({Min(window), Min(above) - 1})
        inserted == storage_insert_unsafe(indexed, target, new[1]).st
    IN  IF new = <<>> THEN indexed
        ELSE set_separator_key(inserted, target, Min({indexed.seps[target], new[1][1]}))

\* SpreadWithRewiring: the elements shared out, then the new one inserted.
DealtRewired(elements, length) == Dealt(elements, segment_sizes(length, Len(elements)))
SpreadWithRewiring(st, start, length, new) ==
    update_index([st EXCEPT !.segs = Replaced(@, start, DealtRewired(Window(@, start, length), length))],
                 start .. (start + length - 1), new)

spread_two_copies(st, start, length, s, new) == C5!spread(st, start, length, s, new)

spread(st, start, length, s, new) ==
    IF UseRewiring(st, length) THEN SpreadWithRewiring(st, start, length, new)
    ELSE spread_two_copies(st, start, length, s, new)

resize_general(st, new) == C5!resize(st, new)

WindowHeight(st, s, new) == C5!WindowHeight(st, s, new)

RebalanceAt(st, s, new, height) ==
    IF C5!Balanced(st, s, height, new)
    THEN spread(st, WindowStart(s, height), WindowLength(height), s, new)
    ELSE resize_general(st, new)
rebalance(st, s, new) == RebalanceAt(st, s, new, WindowHeight(st, s, new))

insert_common(st, s, e) ==
    IF Len(st.segs[s]) = SegmentCapacity THEN rebalance(st, s, <<e>>) ELSE C5!InsertInto(st, s, e)

insert(e) ==
    /\ alive
    /\ pma.card < MaxElements
    /\ pma' = IF empty(pma) THEN insert_empty(pma, e)
              ELSE insert_common(pma, index_find(pma, e[1]), e)
    /\ ret' = <<"insert", -1>>
    /\ UNCHANGED alive

-----------------------------------------------------------------------------
minimum_size(st) == C5!minimum_size(st)

\* remove(key): as in BTreePMACC5, with the rebalance of this class.
Shrunk(st, s, value) == IF value # -1 /\ C5!TooSmall(st, s) THEN rebalance(st, s, <<>>) ELSE st
RemoveAtPosition(s, i) ==
    IF empty(pma) \/ i = 0 THEN ret' = <<"remove", -1>> /\ UNCHANGED pma
    ELSE /\ ret' = <<"remove", pma.segs[s][i][2]>>
         /\ pma' = Shrunk(C5!Without(pma, s, i), s, pma.segs[s][i][2])
RemoveFrom(s, key) == RemoveAtPosition(s, FirstWith(pma.segs[s], key))
remove(key) == alive /\ RemoveFrom(index_find(pma, key), key) /\ UNCHANGED alive

find(st, key) == C5!find(st, key)
Iterator(st, interval) == C5!Iterator(st, interval)
sum(st, interval) == C5!sum(st, interval)

-----------------------------------------------------------------------------
load_generate_runs(st, batch) == C5!load_generate_runs(st, batch)
load_fuse_runs(st, runs) == C5!load_fuse_runs(st, runs)
load_merge_single(st, s, run) == C5!load_merge_single(st, s, run)
load_merge_multi(st, start, length, run) == C5!load_merge_multi(st, start, length, run)

\* The first extents take elements of the batch only: spread_elements is then called with
\* no element of the window left.
Depletes(elements, batch, sizes) ==
    LET extent0 == FoldSet(LAMBDA s, n : n + sizes[s], 0, 0 .. (SegmentsPerExtent - 1))
        below == Cardinality({i \in DOMAIN batch : batch[i][1] < elements[1][1]})
    IN  Cardinality(DOMAIN sizes) > SegmentsPerExtent /\ below >= extent0

\* SpreadWithRewiringBulkLoading, and the update of the cardinality that follows it.
\* FALSE when memory that is not the program's is read.
Spreaded(st, start, dealt, added) ==
    [st EXCEPT !.segs = Replaced(@, start, dealt), !.card = @ + added]
SpreadWithRewiringBulkLoading(st, start, length, elements, run) ==
    [st |-> update_index(Spreaded(st, start, DealtRewired(Merge(elements, run), length), Len(run)),
                         start .. (start + length - 1), <<>>),
     alive |-> ~ Depletes(elements, run, segment_sizes(length, Len(elements) + Len(run)))]

\* load_spread: the runs one by one.
LoadRun(acc, run, part) ==
    IF ~ run.valid \/ ~ acc.alive THEN acc
    ELSE IF run.segments > 1 /\ UseRewiring(acc.st, run.segments)
    THEN SpreadWithRewiringBulkLoading(acc.st, run.segment, run.segments,
                                       Window(acc.st.segs, run.segment, run.segments), part)
    ELSE [acc EXCEPT !.st =
             IF run.segments > 1 THEN load_merge_multi(@, run.segment, run.segments, part)
             ELSE IF run.length > 1 THEN load_merge_single(@, run.segment, part)
             ELSE insert_common(@, run.segment, part[1])]
load_spread(st, batch, runs) ==
    FoldLeft(LAMBDA acc, run : LoadRun(acc, run, C5!PartOf(batch, run)), [st |-> st, alive |-> TRUE], runs)

\* load_resize_rewire: extend the array, then spread it with the batch.
Extended(st, length) ==
    [segs |-> [s \in 0 .. (length - 1) |-> IF s < NumSegments(st) THEN st.segs[s] ELSE <<>>],
     seps |-> [s \in 0 .. (length - 1) |-> MinKey], card |-> st.card]
load_resize_rewire(st, batch) ==
    LET n == st.card + Len(batch)
        length == hyperceil((n * 100 + ThetaH - 1) \div ThetaH) \div SegmentCapacity
    IN  SpreadWithRewiringBulkLoading(Extended(st, length), 0, length, Content(st), batch)

load_resize_general(st, batch) == C5!load_resize(st, batch, 0)

load_resize(st, batch) ==
    IF UseRewiring(st, NumSegments(st)) THEN load_resize_rewire(st, batch)
    ELSE [st |-> load_resize_general(st, batch), alive |-> TRUE]

load_empty_single(st, batch) == C5!load_empty_single(st, batch)
load_empty_multi(batch) == C5!load_empty_multi(batch)
load_empty(st, batch) == C5!load_empty(st, batch)

Loaded(batch, fused) ==
    IF fused.resize THEN load_resize(pma, batch) ELSE load_spread(pma, batch, fused.runs)
LoadEnds(loaded) ==
    \/ loaded.alive /\ pma' = loaded.st /\ ret' = <<"load", -1>> /\ UNCHANGED alive
    \/ ~ loaded.alive /\ alive' = FALSE /\ UNCHANGED <<pma, ret>>
load_sorted(batch) ==
    /\ alive
    /\ batch # <<>>
    /\ pma.card + Len(batch) <= MaxElements
    /\ \/ empty(pma) /\ pma' = load_empty(pma, batch) /\ ret' = <<"load", -1>> /\ UNCHANGED alive
       \/ ~ empty(pma) /\ LoadEnds(Loaded(batch, load_fuse_runs(pma, load_generate_runs(pma, batch))))

Crashed == ~ alive /\ UNCHANGED vars

Next ==
    \/ \E e \in Elements : insert(e)
    \/ \E key \in Keys : remove(key)
    \/ \E batch \in Batches : load_sorted(batch)
    \/ Crashed

Spec == Init /\ [][Next]_vars

-----------------------------------------------------------------------------
\* What is inserted, removed and loaded, and what find, the iterator and sum return, is as
\* pma/interface.hpp describes.
Reads ==
    [found |-> [key \in Keys |-> find(pma, key)],
     visited |-> [interval \in {i \in Intervals : i[1] <= i[2]} |-> Iterator(pma, interval)],
     sum |-> [interval \in Intervals |-> sum(pma, interval)]]
Map == INSTANCE OrderedCollection WITH content <- BagOf(Content(pma)), reads <- Reads
ImplementsMap == Map!Spec
=============================================================================
