# A TLA+ model of the rewired memory array (rma)

The repository implements packed memory arrays: sorted key/value elements kept
in an array with gaps, so that insertions move few elements and range scans run
over consecutive memory. Its main implementations move elements by *rewiring*
virtual memory and adapt to where the updates fall. Around them are the arrays
and trees they are compared with. All implement one interface,
`pma/interface.hpp`.

This directory holds specifications of these containers, from the memory mapping
up to the interface: TLA+ modules, the TLC models that check them, and TLAPS
proofs, for every size, of the packed memory array int2 and its adaptive
rebalancing, of its spread by rewiring, of its range scans, of the memory mapping
and its buffers, of the rebalance in place and of the predictor of bh07_v2.

## 1. The system

| Component | State | Operations | Used by |
|---|---|---|---|
| `RewiredMemory` | translation map, page table, file of extents | `swap`, `extend` | `BufferedRewiredMemory` |
| `BufferedRewiredMemory` | start of the buffer space, deque of free buffers | `acquire_buffer`, `swap_and_release`, `extend`, `shrink` | the storages, the spreads |
| spreads of int2, int3, bh07_v2, `BTreePMACC7`, `BTreePMACC5` | input cursor, output cursor, extents to rewire, pending insertion or batch | `execute`, `spread`, `load_spread` | the arrays |
| `Detector`, `Weights`, `MoveDetectorInfo` (int1, int2, int3) | per segment: recent updates, where they hit, when | record, detect, move | the adaptive arrays |
| `Predictor` (bh07_v2) | circular array of segments with counts | `update`, `resize` | `APMA_BH07_v2` |
| `AdaptiveRebalancing` (int1, int2, int3, bh07_v2) | the partitions produced so far | `release` | the adaptive arrays |
| `DensityBounds` | four densities | `thresholds` | every array |
| `StaticIndex` | implicit B-tree of separator keys | `rebuild`, `set_separator_key`, `find`, `find_first`, `find_last` | int2, int3, bh07_v2, btree/08, `BTreePMACC5`, `BTreePMACC7` |
| `DynamicIndex` | (a,b)-tree with linked leaves | `insert`, `remove`, `remove_any`, searches | `BTreePMA_v4`, drui |
| the arrays | segments, sizes, separators, cardinality | `insert`, `remove`, `find`, iterator, `sum`, `load` | clients |
| `ABTree` | (a,b)-tree with linked leaves | the same, `remove` of an interval, permutation of the nodes | clients |

An insertion asks the index for a segment. A segment with a free slot takes the
element; a full one starts a rebalance, which climbs the calibrator tree to a
window sparse enough, decides how to share it out (evenly, or by what the
detector or the predictor has seen) and spreads the elements, in place or with
rewiring; or it makes the array larger. A removal that leaves a segment too
sparse rebalances or shrinks the array.

The program is sequential: no two operations run at once. What is hard is

* input and output of a spread share one memory, and either may be ahead;
* a call of the memory below may raise in the middle of an operation;
* separators, sizes, cardinality and elements are four records of one fact, each
  maintained in several places;
* slots that are not in use keep old keys, and searches read some of them;
* sizes are rounded fractions of thresholds that differ at every level, and with
  windows that are no power of two the heights are fractions too;
* sections of the detector follow the elements they are about, in an order that
  matters;
* nodes of a tree are merged, freed and rotated while a path through them is held;
* retries, loops and recursions whose end depends on all of the above.

`PROJECT.json` lists the hazards line by line and which property would catch each.

## 2. Modules

A method that changes the array is an operator that takes the array and returns
it; a call of the interface is an action. Where a spread, a recursion or a
sequence of system calls has steps of its own, these are actions of a module of
their own. Where a class repeats the text of another, its module uses the
operators of the other module, and `PROJECT.json` maps what it adds.

### The interface: OrderedMap, OrderedCollection

`OrderedMap` is a bag of elements with `insert`, `find` and `remove`; int2, whose
calls take several steps there, implements it. `OrderedCollection`
has `Insert`, `Load`, `Remove`, `NotFound` and `RemoveRange`, and a variable
`reads` with what `find`, the iterator and `sum` would return: it must agree with
the bag after every update. All the other containers implement this one. Which
of several elements with a key is found or removed is open, as in the header.

### Memory: RewiredMemory, ExtentArray, BufferedRewiredMemory

Addresses are offsets in pages, an extent's contents are one datum. The class's
`m_translation_map` and the kernel's `page_table` are separate, because `swap`
makes two `mmap` calls and either may fail: `SwapRewires`, `SwapFirstFails`,
`SwapSecondFails`. `extend` succeeds, exceeds the limit or fails in `ftruncate`.
`Write` is a store of the owner.

* `MemorySound`: the state is well typed, the map permutes the extents of the
  file, and no access to an allocated extent faults, whatever failed.
* `TornOnlyByHalfSwap`: only a failing second `mmap` makes page table and map
  differ, and a complete swap of an extent repairs it.
* `ImplementsArray`: while no swap is half done the region refines
  `ExtentArray`, in which swap exchanges two cells and extend appends empty ones.

`BufferedRewiredMemory` is an INSTANCE of `RewiredMemory` with the same
variables. `lent` is a history variable, the buffers clients hold. A raise of the
memory below ends the operation where it occurs (`Propagate`).
`BuffersPartitioned` says every extent is user space, a free buffer or a lent
one, and only one of these; `OnlySwapMovesUserData` says what may change behind a
user extent.

### Spreads

* `SpreadWithRewiring` (int2): one step per chunk copied (an iteration of the
  loop of `spread_elements`), with `StartExtent`, `StartPair`, `EndPair` and
  `EndExtent` (`reclaim_past_extents`) around, in both directions. Even segments
  are packed right and odd ones left, so a pair is one run. `SpreadCorrect`: no
  element is overwritten before it is read (`UnreadIntact`), every buffer is
  released (`AllBuffersReleased`), and the window ends sorted, complete, in the
  sizes asked for, with correct separators. `PredecessorIsPrevious`: what is
  reported to the detector.
* `AdaptiveSpreadWithRewiring` (int3) and `BH07SpreadWithRewiring` (bh07_v2) use
  the operators of int2 where the text is the same; they differ in when the new
  element is merged in and, int3, in windows that grow or shrink by extents.
* `BulkSpreadWithRewiring` (`BTreePMACC7`): a window shared out evenly, alone or
  merged with a sorted batch.
* `SpreadInPlace` (`BTreePMACC5`): the last elements to a buffer, the others to
  the end of the window, the segments filled again from the left. Elements have
  no identity; `InPlaceSafe` says each is still where it is read from. The block
  that fills a pair may overlap the block it is read from when the last four
  segments held few elements; the code uses `memcpy` (btreepmacc5.cpp:969), which
  is right there only if it copies in increasing order, as the model does.

Slots hold keys; values are copied by the same offsets. A buffer is its contents:
how it is obtained is `BufferedRewiredMemory`. `Terminates` says every copy loop
ends.

### Adaptive rebalancing

* `AdaptiveSplit` has the operators that choose a split point from hammered
  intervals; `AdaptiveRebalancing` (int2) is the recursion as a stack of pending
  calls. `WindowShared`: the partitions tile the window, lose nothing and fit.
  `IntervalsSound`: the unsigned starts never wrap, and no section of the detector
  is moved twice or onto another.
* `Weights` models the classes `Detector` and `MoveDetectorInfo` (counters of 16
  bits, the two keys, the ring of timestamps, the moves of sections) and `Weights`
  (the rank of the timestamps by quickselect, the intervals and their merging).
  `HammeredSegments` composes it with `AdaptiveRebalancing`, the spread and the moves: an update starts, its recursion
  runs, it ends. `DetectorSound` (the threshold has the rank asked for; the head
  of each ring is its oldest timestamp) and `RebalancingSound` (intervals apart
  from each other, partitions that fit).
* `AdaptiveRebalancing3` is the recursion of int3 over windows of any length;
  `HammeredSegments3` composes it with the detector. There the sections are moved
  first: `Int3InsertionIsRecorded` holds, the counterpart in int2 does not.
* `PredictorQueue` is the queue that `predictor.hpp` describes, `Predictor` the
  circular array that implements it (`ImplementsQueue`). `compute_rec`, in
  `APMA_BH07_v2`, divides a window by the counts of the predictor, unsigned
  arithmetic and reads past the weights included.

Densities are exact rationals; the code's doubles round the same products.

### Indexes: StaticIndex, BalancedTree, DynamicIndex

`StaticIndex` is the tree in its array: `rebuild` with the right spine, `get_slot`
and the descents. An array that is allocated holds `Garbage`, one that is kept
holds the old separators. `IndexSound`: slots are distinct, and the searches agree
with a plain scan.

`BalancedTree` has the nodes, separators, leaf links and heap of
`dynamic_index.hpp`: split, merge, both rotations, insertion, removal of one
element, of any with a key, of an interval. `ok` of the heap is FALSE once the
code has used a node it had freed. `DynamicIndex` is the class over it;
drui has a copy, whose methods are the `index_` operators of `DruiPMA`.

### The arrays and the tree

* `PackedMemoryArray` (int2): an operation is the action that starts it and, when
  it needs one, the `spread` or `resize` it leads to; `call` is the operation in
  progress. The layout a rebalance gives a window is any that satisfies
  `WindowShared`: what is shown holds for every strategy. `WellFormed`: sorted,
  exact cardinality, no empty segment at rest, separators that lead to the keys.
  `RetrySucceeds`, `CallsReturn`: one resize is enough and calls end.
* `Scan`: iterator and `do_sum` of int2, the search of both ends and the walk over
  runs, with leftovers of any value in the unused slots. The arrays scanned are those
  at rest (`IsArray`), which `WellFormed` of `PackedMemoryArray` says of it between
  calls; the separators are then the first keys, and the searches of the index are
  those of `StaticIndex`, by definition. `ScanCorrect` holds on the way as well: at
  any time the slots visited are the first ones in range, each once.
* `PackedMemoryArrayInt1`: the first adaptive array, with the index that is a B+
  tree without pointers, the detector, the weights, the spreads through a scratch
  array, and the insertion that is made again after a resize. With one segment
  `find_bucket_max` reads before the root of the index
  (int1/packed_memory_array.cpp:1117), so the scans are those of arrays with more
  (`Scannable`).
* `PackedMemoryArrayInt3`: growth by extents beyond a cutoff and adaptive
  partitions; the intervals of a rebalance are any of `Hammers`.
* `APMA_BH07_v2`: insertion with the predictor, the retry after a resize, reads.
* `Segments` has what the clustered arrays share: density bounds, windows, even
  sizes, the separators, the reads. `BTreePMACC5` (in place, bulk loading),
  `BTreePMACC7` (rewired), `PackedMemoryArray8` (cutoff, re-aligned calibrator
  tree, resizes by extents) build on it and on each other.
* `BTreePMA_v4`: separators are entries of a `DynamicIndex`, removed and inserted
  one by one. `DruiPMA`: gaps anywhere inside a segment.
* `ABTree`: insert, load, removal of a key and of an interval, permutation of the
  nodes in memory, reads along the leaf links.

The property of each is the refinement of `OrderedCollection`. A lost update, a
key routed to the wrong segment, a separator that was not updated, or a scan that
stops early violates it.

## 3. Runs

The MC modules put several specifications in one run. A variable says which of
them a behaviour is about. Each MC module EXTENDS one specification, whose
variables stay in an initial state while another one runs, and whose properties
are checked as they stand in its module; the others are INSTANCEs that take turns
with the remaining variables, and their properties are guarded by the variable.
The MC modules also assert, as ASSUMEs, the assumptions on the constants that the
modules define (`...Assumption`). `rewired` needs no module of its own:
`RewiredMemory.cfg` gives the constants.

| Run | Models and bounds |
|---|---|
| `rewired` | 2 extents of 2 pages, limit 7 pages (a third extent fits, a fourth does not), 3 contents |
| `parts` | BufferedRewiredMemory: 2 extents of 1 page, limit 4, buffers added one at a time. StaticIndex: nodes of 2 and 3, 1 to 11 segments. Scan: 1, 2 and 4 segments of 2 slots, 3 keys, 3 leftovers, 25 ranges |
| `spread` | int2 forwards: 4 extents of 2 segments of 2 slots, the second window of the array, one, two or seven full segments, one empty, even and uneven partitions, every place in a full segment. int2 backwards: 8 segments of 4 slots, the first 4 filled from half to full in every way. int3: 6 segments of 3 slots from 4, 6 and 8. bh07_v2: 8 segments of 2. Bulk: windows of 4, 6 and 8 segments of 4, batches below, between and above. In place: windows of 2, 4 and 8 segments of 3 |
| `adaptive` | int2: windows of 4 segments of 4 slots, all cardinalities the thresholds admit, up to 3 intervals of either weight; and 6 updates in two clusters on 4 segments with the detector. int1: 6 updates from an empty array, from two segments about to be resized and from four, index nodes with two children. int3: up to 13 elements, which is across a cutoff of 4 segments to 6 and 8 and back; and 6 updates with the detector. bh07_v2: up to 20 elements in 8 segments |
| `pma`, `pma_live` | 3 keys, up to 8 elements, 1 to 4 segments of 4 slots; 2 keys, up to 7 elements |
| `containers` | `BTreePMACC5` 8 elements and 4 batches; `BTreePMACC7` 9 elements, extents of 2 segments, 3 batches; `PackedMemoryArray8` 17 elements, 12 segments, across the cutoff; drui 14 elements from 4 starts; `BTreePMA_v4` 9 distinct keys in any order; `ABTree` and `DynamicIndex` trees of 3 levels, 4 and 5 operations from the starts or batches; `Predictor`, capacities of 3 to 6 in buffers of 4 and 8 |

The bounds are the least at which the hard cases occur: a memory limit hit by
`extend`, windows where output is ahead of input in one part and behind in
another, insertions at both ends of a segment and of the window, an interval cut
by a threshold, arrays that grow twice and shrink twice, a lower rightmost
subtree on two levels, an inner node that merges while its parent is at its
minimum, a number of segments that is no power of two. Some constants stand for
larger ones of the code so that their effect shows at this size:

* `RankThreshold` is 20 hundredths, in the code 99: of few timestamps the 99th
  percentile is always the newest.
* `CutoffExtents` is 2 for 64 and `RootDensity` 50 for 75: an array just above the
  cutoff must have room for its elements when it shrinks to it, which 64 extents
  and 75 % give. `PackedMemoryArray8Assumption` says so.
* `Segments` and `PackedMemoryArray` assume that a window dense enough has one
  element per segment, as the minimum capacity of 32 and the default densities give.
  `PackedMemoryArray` also assumes that `MaxHeight` leaves room for `MaxElements` at
  the density of the root, so that the bounds never stop a resize.
* The predictor is followed only as long as it lies in its buffer (`Contained`, see
  below), and `APMA_BH07_v2` assumes a scale of at most 2, with which
  it does.
* `BH07SpreadCorrect` is checked for keys that are not above all those of their
  segment unless it is the last; for the others see `spread_appended`.
* `BulkSpreadCorrect` asks nothing after a crash (see `NoWildRead`), and `ABTree`,
  `DynamicIndex` and `BTreePMACC7` stop where the code has used freed memory or has
  read outside its arrays. `V4ImplementsMap` is about distinct keys.

Fairness. A spread is a loop of one thread: weak fairness of `Next` in `MCSpread`.
In `PackedMemoryArray` only the continuation of a call that has been made is
fair; clients owe nothing. In `Scan` a client keeps calling `next` and the loop of
`do_sum` runs on. The scheduler of a single thread gives all of this.

### Where the code and its own words disagree

Five runs are expected to be violated; each states what the repository says.

* `pma_minus_one`: removing elements whose value is -1 skips the rebalance; a
  segment becomes empty and a later `remove` visits it, against its assertion.
* `adaptive_recorded`: in int2 the destructor of `MoveDetectorInfo` moves the
  sections after the spread has recorded the new element; the record is
  overwritten or taken along.
* `spread_appended`: in bh07_v2 a new element above all those of its segment is
  appended to the window although it is not the maximum.
* `containers_duplicates`: with equal separators `index_update` of `BTreePMA_v4`
  removes the entry of another segment; a stored key is no longer found.
* `containers_dangling`: the removal of an interval from `ABTree` frees leaves
  that their neighbours still link to.

These statements are definitions of the modules too. They do not hold either; no
run checks them, and the runs above keep away from, or stop at, what they are
about:

| Statement | Where | What happens |
|---|---|---|
| `AllBuffersReleased` of SpreadWithRewiring, one segment per extent | int2/spread_with_rewiring.cpp:296 | the right to left spread copies nothing and keeps its buffers |
| `IntervalsInside` of AdaptiveRebalancing | int2/adaptive_rebalancing.cpp:184 | an interval may begin where its part ends; `IntervalsSound` shows it does no harm |
| `CountersWithinMaximum` of HammeredSegments | int1/detector.cpp:142 | a removal far from the key raises a counter past its limit |
| `SplitsExist` of PackedMemoryArrayInt3 | int3/adaptive_rebalancing.cpp:404 | the bounds of the left half may contradict each other after removals |
| `MovesArrive` of HammeredSegments3 | int3/adaptive_rebalancing.cpp:457 | a section registered for two segments arrives at one |
| `PredecessorIsPrevious` of AdaptiveSpreadWithRewiring | int3/spread_with_rewiring.cpp:330 | the predecessor reported is an element further left |
| `Contained` of Predictor | bh07_v2/predictor.cpp:266 | the resize of an empty predictor may exceed its buffer |
| `WellFormed` of BTreePMACC5, `PastTheSizes` = {0, 1} | btreepmacc5.cpp:1899 | `load_resize` of one segment reads a size past the array |
| `NoWildRead` of BulkSpreadWithRewiring | btreepmacc7.cpp:1940 | an unsigned division of -1 leads to a read far outside |
| `SizeIsTheNumberOfElements` of DruiPMA | external.cpp:122 | `size` returns the capacity |
| `NeverPastTheChildren`, `FindLastIsLast` of DynamicIndex | dynamic_index.hpp:793, :1182 | a child that was merged away is used; of two equal entries the first is returned |
| `RotationsMoveAll`, `SplitsWithinBounds` of ABTree | abtree.cpp:806, :380 | rotations of inner nodes by three or more lose children; leaves of b = 2a - 1 split too small |

## 4. Proofs

Each theorem holds for every value of the constants that satisfies the named
assumption, which the run of the same property evaluates on its instance.

| Module | Theorem | States |
|---|---|---|
| `RewiredMemoryProofs` | `RewiredMemorySafety` | `Spec => []MemorySound` |
| | `TearsOnlyByHalfSwap` | `Spec => TornOnlyByHalfSwap` |
| | `RewiredMemoryImplementsArray` | `Spec => ImplementsArray` |
| `BufferedRewiredMemoryProofs` | `BuffersSafety` | `Spec => []BuffersPartitioned` |
| | `OnlySwapMovesSafety` | `Spec => OnlySwapMovesUserData` |
| `SpreadInPlaceProofs` | `InPlaceSafety` | `Spec => []InPlaceSafe` |
| `SpreadWithRewiringProofs` | `NothingIsOverwritten` | `Spec => [](TypeInv /\ UnreadIntact)` |
| | `BuffersAreReleased` | `Spec => []AllBuffersReleased` |
| `PackedMemoryArrayProofs` | `PackedMemoryArrayWellFormed` | `SafetySpec => []WellFormed` |
| | `PackedMemoryArrayImplementsMap` | `SafetySpec => ImplementsMap` |
| | `PackedMemoryArrayRetrySucceeds` | `SafetySpec => []RetrySucceeds` |
| | `PackedMemoryArrayRemoveVisitsNonEmpty` | `SafetySpec => []RemoveVisitsNonEmpty` |
| `AdaptiveRebalancingProofs` | `WindowSharing` | `Spec => []WindowShared` |
| | `IntervalSafety` | `Spec => []IntervalsSound` |
| `ScanProofs` | `ScansAreCorrect` | `ScanSpec => []ScanCorrect` |
| `PredictorProofs` | `PredictorImplementsQueue` | `Spec /\ []Contained => ImplementsQueue` |

**RewiredMemory.** `MemorySound` is the conjunction of `TypeInv`,
`MapIsPermutation` and `NoBusError`, and inductive. `NoBusError` alone is not:
after a swap it needs that the map's values lie in the file (`MapIsPermutation`),
and after `extend` that the page table beyond the allocated extents is still the
identity, hence its second conjunct. `MapIsPermutation` needs that map and file
have the same size. The argument goes action by action: a swap composes the map
with a transposition, `extend` adds fixed points at the end, failures change at
most the page table and only to a value of the map. The only assumption is
`RewiredMemoryAssumption`, the checks of the constructor.

`extend` tears nothing because the page table after the allocated extents is the
identity that it appends to the map, and a completed swap gives its two extents
the same entries in both tables. For the refinement: where nothing is torn an
extent is read through the map, the map is injective, so a store is seen through
one extent only (`Store`); a completed swap is `Exchange`, a growing `extend` is
`Grow`, the calls that raise before any change are stutters, and a swap whose
second `mmap` fails ends torn, because distinct aligned addresses are distinct
extents with distinct physical ones.

**PackedMemoryArray.** `WellFormed` is not inductive: it says of `IndexLeadsToKeys`
and `NoEmptySegment` only what holds between calls, while a rebalance has to start
in the middle of one. `IndInv` says what the array is at every step, for the number
of segments and the height it has (`Sound`): the elements in order, none of the
segments overfull, an exact cardinality, and the separator of every segment that has
elements is its first key (`ArraySound`). An array of several segments has an empty
one only while the removal that emptied it has yet to rebalance, and it is that one;
a pending insertion has room below the bound; and one that is tried again finds the
array at most half full (`CallSound`). TLC checked this invariant on the instance of
`pma` before it was proved.

The proof has three layers. The elements of a window are its segments one after the
other (`Joined`); they are cut into parts and put together with `Cat` and `Part`, and
inserting in order into a part inserts in order into the whole. The index finds the
segment where a key belongs: no greater key is before it and no smaller one after it
(`Finds`), which gives both the search (`SearchIs`) and the place of an insertion.
Then one lemma for each action says that it keeps the invariant and what it does to
the elements. A rebalanced window keeps its elements because the layout's sizes add
up to their number (`Dealt`), holds the segment that caused it and that segment's
pair (`WindowAround`), and, when it is the window of a removal, has an element for
each of its segments (`SegmentsEven`, `MinimumSize` and the assumption on the
densities). The bag of the refinement is a count of positions; an insertion at any
place adds one to one count.

Two hypotheses are stated with the theorems, since the code does not check them.
`NoMinusOne`: no value is -1. `PackedMemoryArray::remove` takes that value for "not
found" and then neither rebalances nor looks at the segment again; the run
`pma_minus_one` shows that without the hypothesis a segment stays empty and
`RemoveVisitsNonEmpty` fails. `RoomAfterResize`, for `RetrySucceeds` only: two segments
at the root's density have room for half of their slots and one more element, which
`theta_h` = 0.75 and a capacity of 2 or more give.

**Scan.** `ScanInv` says where a scan is in terms of what is left: the elements in
range are those visited and those from the next slot up to the end of the scan
(`Walk`), and the end of the run is the end of the pair of segments the next slot is
in, or the end of the scan (`RunIs`, `WalkIs`). Three facts carry it. The search
finds the ends: every element before the lower one is below the minimum, and from
there on the elements in range are those before the upper one (`LowerBoundIs`,
`UpperBoundIs`). The loop for the upper one also looks at the slot before the elements
of an even segment, whatever it holds; it never takes it when something is in range,
because the segment that `find_last` gives begins with a key that is not above the
maximum. A run has no gap, because
the elements of an even segment end where those of the odd one begin; and from a run
to the next no element is left out (no segment is empty, and both are pairs). The
sums of `do_sum` are those of its runs; that they add up to the sum over the slots
visited is shown with a least counterexample. `ScanAssumption`: segments have slots,
and the array is one at rest, with any number of segments, sizes and leftovers.

**BufferedRewiredMemory.** `BuffersPartitioned` is inductive as it stands: it
relates the boundary, the number of buffers, the deque and `lent`, and each
operation keeps the relation. Most of the work is about deques: what `PushFront`
and `PopBack` leave, that addresses of different extents differ, and that the
number of lent buffers is the difference of two cardinalities. For the action
property the invariant also has `Mapped`: the page table covers the reserved
region and the allocated extents lie in it. Then a swap, or one whose second `mmap`
fails, changes one user extent, to the physical extent of a lent buffer.

**SpreadInPlace.** Two counts carry the proof. While the window is compacted the
elements moved so far lay behind those still to move (`CompactInv`), so a pair
moves over slots that are free; what was copied out to chunk 2, a pair or the last
four segments, makes the room. While it is filled, as many elements were written
as were read and loaded (`FillInv`): those to come fit the slots after the output,
and the unread ones of chunk 1 are some of them, at the very end of the window,
so the output is not past them. It needs that the remainder of the division goes
to the first segments, and that every segment keeps to its capacity.
`SpreadInPlaceAssumption`: windows of an even number of segments, none overfull;
`Init` asks of a batch that it fits.

**SpreadWithRewiring.** `UnreadIntact` says that the slots still to be read hold what
they held at first, `AllBuffersReleased` that at the end no extent waits to be
rewired. Neither is inductive. `SpreadInv`, checked by TLC on the instances of
`spread` before it was proved, counts what is left. The position of the input lies in
the run of a pair of segments, so many elements of which are unread (`PositionIs`,
`InputIs`). What is still to be written, from the cursor into the partitions on
(`Todo`, `TargetBefore`), is as much as what is still to be read and the insertion, if
it is pending (`Inserting`): each chunk takes the same from both sides, and the new key
takes one place more, the chunk that ends there being cut by one element that is read
again (lemma `MergeIs`). An extent written in place is one the input has left
(`BuffersPlaced`), and so is one that is rewired (lemma `RewiringIs`): hence nothing unread is touched. After the
last extent there is nothing to be written, so nothing is pending and the input stands
at the border of the window, past every extent, and the queue empties.

The hypotheses are `SpreadAssumption` and `CallersAssumption`, which TLC evaluates on
both instances of `MCSpread`. The second is about the calls that `rebalance` makes:
extents of whole pairs of segments; partitions that share out all the elements and
segments of the window, none of them empty or too full; no pair of the window without
elements; and, backwards, as after `extend`, no insertion and nothing to the right of
where the input starts. That extents hold whole pairs is needed: section 3 has the
counterexample for extents of one segment.

**AdaptiveRebalancing.** The invariant `Inv` is about the calls of `recursion` that
are still to be made (`FramesSound`): each is about a node of the calibrator tree,
starts at a multiple of its length, has a cardinality that the thresholds of its
height admit and intervals that are in order and apart; the calls follow one
another up to the end of the window; no two have a section of the detector in
common, nor one that was moved (`MovesSound`), and what was moved went to segments
that are done. Two facts make a split keep it. `find_split_point` leaves an
interval on the left, so the optimum lies between the start of an interval and
that of the next; and both `ensure_` functions keep the split point between two
such starts after cutting the interval that crosses it, whatever the weights. That
there is a split point both halves can do with (`lo <= hi`) follows from the
thresholds nesting; that the cardinalities add up is a lemma on shifting sums.
`AdaptiveAssumption` has the checks of the constructor of `DensityBounds`; windows
that are powers of two within their thresholds, with intervals apart, as `rebalance`
and `Weights` hand over; and that the *rounded* thresholds nest: two halves at their
minimum have no more elements than the window at its own, at their maximum no fewer,
and the minimum is at least one element per segment. The last is arithmetic on
`ceil` and on the capacities; it was computed for the default densities, segments of
32, 64, 128 and 256 slots and trees of up to 25 levels. `m_can_fill_segments` is
true, as by default.

**Predictor.** The items in use are described by the tail and their number: the
i-th is at `Slot(tail, capacity, i)`, and these positions are distinct. Every
operation is first shown to be that of the queue in these terms, for any buffer,
with the case that the items wrap around the end; the head only says how many there
are. The inductive invariant has the types, that head and tail agree when there is no
item, and that the items are about segments there are. The hypothesis
`[]Contained` is needed: the resize of an empty predictor, and a new buffer of
exactly the size of its items, may put the array or its head outside (section 3), and
nothing is promised there. `PredictorAssumption` says of `hyperceil` that it is at
least its argument: `2 ^ n` is unknown to the provers.

**Induction.** The theorems of the library that take a predicate cannot be used with
these provers. Where induction was needed (sums over segments and partitions, the
height of a window, the walk of `find_split_point`) it is in the form of a least
counterexample: `LeastNatural`, from `WFMin`, applied to the set of numbers for which
the statement fails. Recursive functions in a LET are used through the equation that
this induction gives.

**Only model-checked.**

* Liveness under fairness: `ScanEnds`, `Terminates`, `CallsReturn`.
* What rests on modules with RECURSIVE operators, for which tlapm has no SMT:
  `BalancedTree`, `ABTree`, `Weights`, `AdaptiveRebalancing3`, `APMA_BH07_v2`,
  `PackedMemoryArrayInt1` and all that use them, `DetectorSound` and
  `RebalancingSound` included.
* `StaticIndex`: its slots are sums of powers of the node size.
* Statements built with folds, `FlattenSeq` or `SelectSeq`, whose operator parameter
  the provers cannot instantiate: the contents of a window after a rewired spread
  (`WindowCorrect`), the predecessor it reports, and the arrays over `Segments`.
* The rewired spreads of int3 and bh07_v2 and the one of a batch: their steps are
  larger, and the counts of `SpreadInv` were made for int2 only.

## 5. Not modelled

* `apma_baseline`, `BTreePMA_v2` and `pma_v4`: predecessors of arrays that are.
* Of int1: the scans of arrays with one segment, and the sampling of updates.
* Out of int2: the random sampling of updates; every update is recorded.
  `alloc_workspace` and the failure of one of the three memories of `Storage`.
* The int3 and btree/08 arrays decide by the space left in the memory whether a
  resize rewires; in the models either may happen. `APMA_BH07_v2` has no arrays
  larger than an extent: its rewired spread is a module of its own.
* `CachedMemoryPool`, `CircularArray` and `SpinLock`: scratch memory, a growing
  ring and a lock, used from one thread for data the models keep as sequences.
* ART, the STX tree and the dense array are adapters around other code;
  `pma/external` but drui are other authors' containers.
* Experiments, driver, database, distributions, profilers: they time, print or
  sample. Statistics and dumps of the containers are left out for the same reason.

## 6. What could follow

1. `UnreadIntact` for the rewired spreads of int3 and bh07_v2, with the counts of
   `SpreadWithRewiringProofs`.
2. `Storage::extend` as three memories with partial failures, below
   `SpreadWithRewiring`.
3. `pma_v4` and the memory pool.
