------------------------------- MODULE Segments -------------------------------
(***************************************************************************)
(* What the clustered packed memory arrays have in common: an array of     *)
(* segments of SegmentCapacity slots each, the calibrator tree above it    *)
(* with its density bounds (pma/density_bounds.cpp), and the static index  *)
(* of one separator key per segment (see the module StaticIndex).          *)
(*                                                                         *)
(* An array is a record: segs, the elements of each segment in key order;  *)
(* seps, the separator keys; card, the number of elements it says it has.  *)
(* An even segment keeps its elements at the right end and an odd one at   *)
(* the left end, so that a pair of segments is one run; where the slots    *)
(* matter is the subject of Scan, SpreadInPlace and SpreadWithRewiring.    *)
(* Densities are rationals over Scale.                                     *)
(***************************************************************************)
EXTENDS Integers, SequencesExt, FiniteSetsExt

CONSTANTS
    SegmentCapacity,              \* m_segment_capacity
    Rho0, RhoH, ThetaH, Theta0,   \* density bounds, in hundredths
    MinKey, MaxKey                \* numeric_limits<int64_t>::min() and max()

\* The constructor of DensityBounds.
SegmentsAssumption ==
    /\ SegmentCapacity \in Nat \ {0}
    /\ 0 <= Rho0 /\ Rho0 < RhoH /\ RhoH <= ThetaH /\ ThetaH < Theta0 /\ Theta0 <= 100

Scale(tree_height) == IF tree_height = 1 THEN 100 ELSE 100 * (tree_height - 1)

\* thresholds_int(tree_height, height), over Scale; a tree of one level has rho_0, theta_0.
Rho(tree_height, height) ==
    IF tree_height = 1 THEN Rho0
    ELSE RhoH * (tree_height - 1) - (RhoH - Rho0) * (tree_height - height)
Theta(tree_height, height) ==
    IF tree_height = 1 THEN Theta0
    ELSE ThetaH * (tree_height - 1) + (Theta0 - ThetaH) * (tree_height - height)

NumSegments(st) == Cardinality(DOMAIN st.segs)

HeightOf(n) == CHOOSE h \in 1 .. (n + 1) : 2 ^ (h - 1) = n

Height(st) == HeightOf(NumSegments(st))

\* hyperceil: the least power of two that is not smaller.
hyperceil(n) == Min({c \in {2 ^ i : i \in 0 .. n} : c >= n})

SumSizes(segs, S) == FoldSet(LAMBDA s, n : n + Len(segs[s]), 0, S)

\* The elements of some segments in a row, in order.
Window(segs, start, length) == FlattenSeq([i \in 1 .. length |-> segs[start + i - 1]])

Content(st) == Window(st.segs, 0, NumSegments(st))

\* n elements over so many segments: the first ones take one more.
EvenSizes(length, n) ==
    [s \in 0 .. (length - 1) |-> n \div length + IF s < n % length THEN 1 ELSE 0]

\* The elements dealt out left to right, each segment as many as its size.
Dealt(elements, sizes) ==
    LET before[s \in DOMAIN sizes \union {Cardinality(DOMAIN sizes)}] ==
            IF s = 0 THEN 0 ELSE before[s - 1] + sizes[s - 1]
    IN  [s \in DOMAIN sizes |-> SubSeq(elements, before[s] + 1, before[s] + sizes[s])]

\* Segments that replace those from start on.
Replaced(f, start, g) ==
    [s \in DOMAIN f |-> IF s - start \in DOMAIN g THEN g[s - start] ELSE f[s]]

FirstKeys(segs) == [s \in DOMAIN segs |-> segs[s][1][1]]

\* Scan from the left: the position of the first key that is not smaller.
PositionBefore(seq, key) ==
    Cardinality({i \in DOMAIN seq : \A j \in 1 .. i : seq[j][1] < key}) + 1

\* Scan from the right: the position after the last key that is not greater.
PositionAfter(seq, key) ==
    Len(seq) - Cardinality({i \in DOMAIN seq : \A j \in i .. Len(seq) : seq[j][1] > key}) + 1

InsertBefore(seq, e) == InsertAt(seq, PositionBefore(seq, e[1]), e)
InsertAfter(seq, e) == InsertAt(seq, PositionAfter(seq, e[1]), e)

\* Two sorted sequences into one; among equal keys those of a come first.
Merge(a, b) ==
    LET M[i \in 1 .. (Len(a) + 1), j \in 1 .. (Len(b) + 1)] ==
            IF i > Len(a) THEN SubSeq(b, j, Len(b))
            ELSE IF j > Len(b) THEN SubSeq(a, i, Len(a))
            ELSE IF b[j][1] < a[i][1] THEN <<b[j]>> \o M[i, j + 1] ELSE <<a[i]>> \o M[i + 1, j]
    IN  M[1, 1]

\* The position of the first element with the key, or 0.
FirstWith(seq, key) == SelectInSeq(seq, LAMBDA e : e[1] = key)

-----------------------------------------------------------------------------
\* StaticIndex: find, find_first and find_last, which compare with m_key_minimum, the
\* separator 0, before they descend.
index_find(st, key) ==
    LET greater == {s \in DOMAIN st.seps \ {0} : key < st.seps[s]}
    IN  IF key <= st.seps[0] THEN 0
        ELSE IF greater = {} THEN NumSegments(st) - 1 ELSE Min(greater) - 1
index_find_first(st, key) ==
    LET notsmaller == {s \in DOMAIN st.seps \ {0} : key <= st.seps[s]}
    IN  IF key < st.seps[0] THEN 0
        ELSE IF notsmaller = {} THEN NumSegments(st) - 1 ELSE Min(notsmaller) - 1
index_find_last(st, key) ==
    IF key < st.seps[0] THEN 0 ELSE Max({s \in DOMAIN st.seps : s = 0 \/ st.seps[s] <= key})

set_separator_key(st, s, key) == [st EXCEPT !.seps[s] = key]

-----------------------------------------------------------------------------
\* The calibrator tree: the window of 2^(height-1) segments around a segment.
WindowLength(height) == 2 ^ (height - 1)
WindowStart(s, height) == (s \div WindowLength(height)) * WindowLength(height)
WindowOf(s, height) == WindowStart(s, height) .. (WindowStart(s, height) + WindowLength(height) - 1)

NotAbove(tree_height, height, n) ==
    n * Scale(tree_height) <= Theta(tree_height, height) * WindowLength(height) * SegmentCapacity
NotBelow(tree_height, height, n) ==
    n * Scale(tree_height) >= Rho(tree_height, height) * WindowLength(height) * SegmentCapacity

-----------------------------------------------------------------------------
\* A scan: the elements from the first one not below min to the last one not above max,
\* each bound searched from the segment the index gives for it: the lower one towards
\* the end of the array, the upper one back to the segment of the lower one.
ScannedBetween(st, segment_start, segment_end, min, max) ==
    LET At(s, i) == st.segs[s][i]
        low == {<<s, i>> \in UNION {{s} \X DOMAIN st.segs[s] : s \in DOMAIN st.segs} :
                    s >= segment_start /\ At(s, i)[1] >= min}
        From(p, q) == p[1] < q[1] \/ (p[1] = q[1] /\ p[2] <= q[2])
        first == CHOOSE p \in low : \A q \in low : From(p, q)
        high == {<<s, i>> \in UNION {{s} \X DOMAIN st.segs[s] : s \in DOMAIN st.segs} :
                    first[1] <= s /\ s <= segment_end /\ At(s, i)[1] <= max}
        last == CHOOSE p \in high : \A q \in high : From(q, p)
    IN  IF low = {} THEN <<>>
        ELSE IF At(first[1], first[2])[1] > max \/ high = {} THEN <<>>
        ELSE IF ~ From(first, last) THEN <<>>
        ELSE IF first[1] = last[1] THEN SubSeq(st.segs[first[1]], first[2], last[2])
        ELSE SubSeq(st.segs[first[1]], first[2], Len(st.segs[first[1]]))
                \o Window(st.segs, first[1] + 1, last[1] - first[1] - 1)
                \o SubSeq(st.segs[last[1]], 1, last[2])
Scanned(st, min, max) == ScannedBetween(st, index_find_first(st, min), index_find_last(st, max), min, max)

\* SumResult of the elements scanned.
SumOf(seq) ==
    [elements |-> Len(seq),
     keys |-> FoldLeft(LAMBDA n, e : n + e[1], 0, seq),
     values |-> FoldLeft(LAMBDA n, e : n + e[2], 0, seq),
     first |-> IF seq = <<>> THEN 0 ELSE seq[1][1],
     last |-> IF seq = <<>> THEN 0 ELSE seq[Len(seq)][1]]

\* The set of the one bag makes TLC evaluate the sequence once.
BagOf(seq) ==
    CHOOSE bag \in {[e \in Range(s) |-> Cardinality({i \in DOMAIN s : s[i] = e})] : s \in {seq}} : TRUE

SortedByKey(seq) == \A i \in 1 .. (Len(seq) - 1) : seq[i][1] <= seq[i + 1][1]
=============================================================================
