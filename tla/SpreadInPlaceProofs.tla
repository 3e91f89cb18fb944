-------------------------- MODULE SpreadInPlaceProofs --------------------------
(***************************************************************************)
(* The compaction and the redistribution of BTreePMACC5 share their window *)
(* safely, for every capacity of the segments, every window of pairs of    *)
(* segments and every batch that fits it.                                  *)
(*                                                                         *)
(* Two counts carry the proof.  While the window is compacted, the         *)
(* elements moved so far lay behind those still to move, so a pair moves   *)
(* over free slots once a pair, or four segments, were copied out.  While  *)
(* it is filled, the elements that are still to be written fit the slots   *)
(* after the output, and the unread ones of chunk 1 are some of them: they *)
(* are the last ones of the window, so the output is not past them.        *)
(***************************************************************************)
EXTENDS SpreadInPlace, WellFoundedInduction, FiniteSetTheorems, TLAPS

-----------------------------------------------------------------------------
(* Every non-empty set of natural numbers has a least element. *)
LEMMA LeastNatural ==
    ASSUME NEW T \in SUBSET Nat, T # {}
    PROVE  \E m \in T : \A k \in T : m <= k
<1> DEFINE R == OpToRel(<, Nat)
<1>1. \A x, y \in Nat : y < x => <<y, x>> \in R
  BY DEF OpToRel
<1>2. IsWellFoundedOn(R, Nat)
  BY NatLessThanWellFounded
<1> HIDE DEF R
<1>3. PICK m \in T : \A k \in T : ~ (<<k, m>> \in R)
  BY <1>2, WFMin, Zenon
<1>4. \A k \in T : ~ (k < m)
  BY <1>1, <1>3
<1> QED
  BY <1>4

(* What it is for a function to give the elements before each segment. *)
IsSizeBefore(g, size, n) ==
    /\ g \in [0 .. n -> Nat] /\ g[0] = 0
    /\ \A i \in 1 .. n : g[i] = g[i - 1] + size[i - 1]

(* There is such a function. *)
LEMMA SizeBeforeExists ==
    ASSUME NEW length \in Nat, NEW size \in [0 .. (length - 1) -> Nat]
    PROVE  \E g : IsSizeBefore(g, size, length)
<1> DEFINE T == {k \in Nat : k <= length /\ ~ \E g : IsSizeBefore(g, size, k)}
<1> SUFFICES ASSUME T # {} PROVE FALSE
  <2>1. length <= length
    OBVIOUS
  <2>2. length \in T \/ \E g : IsSizeBefore(g, size, length)
    BY <2>1
  <2> QED
    BY <2>2
<1>1. PICK m \in T : \A k \in T : m <= k
  BY LeastNatural
<1>2. m # 0
  <2>1. IsSizeBefore([i \in 0 .. 0 |-> 0], size, 0)
    BY DEF IsSizeBefore
  <2> QED
    BY <2>1
<1>3. m \in Nat /\ m <= length /\ m - 1 \in Nat /\ m - 1 <= length /\ ~ (m <= m - 1)
  BY <1>2
<1>4. PICK g : IsSizeBefore(g, size, m - 1)
  BY <1>1, <1>3
<1> DEFINE h == [i \in 0 .. m |-> IF i <= m - 1 THEN g[i] ELSE g[m - 1] + size[m - 1]]
<1>5. IsSizeBefore(h, size, m)
  <2>1. g \in [0 .. (m - 1) -> Nat] /\ g[0] = 0 /\ \A i \in 1 .. (m - 1) : g[i] = g[i - 1] + size[i - 1]
    BY <1>4 DEF IsSizeBefore
  <2>2. size[m - 1] \in Nat /\ g[m - 1] \in Nat
    BY <1>3, <2>1
  <2>3. h \in [0 .. m -> Nat] /\ h[0] = 0
    BY <1>3, <2>1, <2>2
  <2>4. ASSUME NEW i \in 1 .. m PROVE h[i] = h[i - 1] + size[i - 1]
    BY <1>3, <2>1
  <2> QED
    BY <2>3, <2>4 DEF IsSizeBefore
<1> HIDE DEF h
<1> QED
  BY <1>1, <1>5

(* The recursion of SizeBefore defines it. *)
LEMMA SizeBeforeIs ==
    ASSUME NEW length \in Nat, NEW size \in [0 .. (length - 1) -> Nat]
    PROVE  IsSizeBefore(SizeBefore(size, length), size, length)
<1> DEFINE Eq(S) == S = [n \in 0 .. length |-> IF n = 0 THEN 0 ELSE S[n - 1] + size[n - 1]]
           S == SizeBefore(size, length)
<1>1. PICK g : IsSizeBefore(g, size, length)
  BY SizeBeforeExists
<1>2. Eq(g)
  BY <1>1 DEF IsSizeBefore
<1>3. S = CHOOSE f : Eq(f)
  BY DEF SizeBefore
<1> HIDE DEF Eq, S
<1>4. Eq(S)
  BY <1>2, <1>3
<1>5. DOMAIN S = 0 .. length /\ S[0] = 0 /\ \A i \in 1 .. length : S[i] = S[i - 1] + size[i - 1]
  BY <1>4 DEF Eq
<1>6. S = [n \in 0 .. length |-> S[n]]
  BY <1>4 DEF Eq
<1> DEFINE T == {k \in Nat : k <= length /\ S[k] \notin Nat}
<1>7. T = {}
  <2> SUFFICES ASSUME T # {} PROVE FALSE
    OBVIOUS
  <2>1. PICK m \in T : \A k \in T : m <= k
    BY LeastNatural
  <2>2. m # 0
    BY <1>5
  <2>3. m - 1 \in Nat /\ m - 1 <= length /\ ~ (m <= m - 1) /\ m \in 1 .. length
    BY <2>2
  <2>4. S[m - 1] \in Nat
    BY <2>1, <2>3
  <2>5. size[m - 1] \in Nat /\ S[m] = S[m - 1] + size[m - 1]
    BY <1>5, <2>3
  <2> QED
    BY <2>1, <2>4, <2>5
<1>8. \A k \in 0 .. length : S[k] \in Nat
  BY <1>7
<1>9. S \in [0 .. length -> Nat]
  BY <1>6, <1>8
<1> QED
  BY <1>5, <1>9 DEF IsSizeBefore, S

-----------------------------------------------------------------------------
(* The elements of the first k segments after the redistribution. *)
NewBefore(k) ==
    elements_per_segment * k + IF k < cardinality % call.length THEN k ELSE cardinality % call.length

(* The pairs that were compacted include that of the new element. *)
InsertedAfter(p) == IF call.insert >= p + 2 THEN 1 ELSE 0

(* The arguments of the call. *)
CallInv ==
    /\ call.op \in {"spread", "merge"}
    /\ call.length \in Nat \ {0} /\ call.length % 2 = 0
    /\ call.batch \in Nat /\ call.insert \in -1 .. (call.length - 1)
    /\ call.op = "spread" => call.batch = 0
    /\ call.op = "merge" => call.insert = -1
    /\ sizes \in [0 .. (call.length - 1) -> 0 .. SegmentCapacity]
    /\ cardinality <= call.length * SegmentCapacity

TypeInv ==
    /\ phase \in {"compact", "fill", "done"}
    /\ pair \in 0 .. call.length /\ pair % 2 = 0 /\ (phase # "done" => pair < call.length)
    /\ left \in Nat /\ chunk2 \in Nat /\ chunk1 \in Nat /\ output \in Int
    /\ read \in Nat /\ loaded \in Nat
    /\ chunk2 <= input_chunk2_capacity

(* While the window is compacted: every element of the pairs behind this one was copied out *)
(* or moved, and these elements were behind it.                                             *)
CompactInv ==
    /\ read = 0 /\ loaded = 0
    /\ left <= PairSize(sizes, pair)
    /\ chunk1 + chunk2 + left + SizeBefore(sizes, call.length)[pair]
       = SizeBefore(sizes, call.length)[call.length] + InsertedAfter(pair)
    /\ call.op = "merge" =>
          PairStart(sizes, pair) + left + chunk2 + chunk1 <= call.length * SegmentCapacity
    /\ call.op = "spread" =>
          IF pair >= call.length - 4
          THEN chunk1 = 0 /\ chunk2 <= (call.length - 2 - pair) * SegmentCapacity + InsertedAfter(pair)
          ELSE chunk1 <= (call.length - 6 - pair) * SegmentCapacity + InsertedAfter(pair)

(* While it is filled: as many elements were written as were read and loaded. *)
FillInv ==
    /\ Input + call.batch = cardinality
    /\ read <= Input /\ loaded <= call.batch
    /\ phase = "fill" =>
          /\ PairStart(NewSizes, pair) <= output /\ output <= output_end
          /\ read + loaded = NewBefore(pair) + (output - PairStart(NewSizes, pair))
    /\ phase = "done" => read + loaded = cardinality

IndInv ==
    /\ CallInv
    /\ TypeInv
    /\ phase = "compact" => CompactInv
    /\ phase # "compact" => FillInv

-----------------------------------------------------------------------------
(* Multiplication by the capacity is monotone. *)
LEMMA MulMono ==
    ASSUME NEW a \in Int, NEW b \in Int, NEW c \in Nat, a <= b
    PROVE  a * c <= b * c
OBVIOUS

(* The shares that c elements get in l segments, none more than its capacity k. *)
LEMMA Shares ==
    ASSUME NEW c \in Nat, NEW l \in Nat \ {0}, NEW k \in Nat \ {0}, c <= l * k
    PROVE  /\ c \div l \in 0 .. k /\ c % l \in 0 .. (l - 1)
           /\ c = (c \div l) * l + (c % l)
           /\ c % l > 0 => c \div l < k
<1> DEFINE e == c \div l
           r == c % l
<1>1. e \in Nat /\ r \in 0 .. (l - 1) /\ c = e * l + r
  OBVIOUS
<1> HIDE DEF e, r
<1>2. e <= k
  <2> SUFFICES ASSUME e >= k + 1 PROVE FALSE
    BY <1>1
  <2>1. (k + 1) * l <= e * l
    BY <1>1, MulMono
  <2> QED
    BY <1>1, <2>1
<1>3. ASSUME r > 0, e >= k PROVE FALSE
  <2>1. k * l <= e * l
    BY <1>1, <1>3, MulMono
  <2> QED
    BY <1>1, <1>3, <2>1
<1> QED
  BY <1>1, <1>2, <1>3 DEF e, r

(* What the first segments do not take fits the others. *)
LEMMA RestFits ==
    ASSUME NEW e \in Nat, NEW r \in Nat, NEW l \in Nat \ {0}, NEW k \in Nat \ {0},
           NEW n \in 0 .. l, r < l, e <= k, r > 0 => e < k
    PROVE  e * l + r - (e * n + IF n < r THEN n ELSE r) <= (l - n) * k
<1>1. CASE n >= r
  <2>1. e * (l - n) <= k * (l - n)
    BY MulMono
  <2> QED
    BY <1>1, <2>1
<1>2. CASE n < r
  <2>1. (e + 1) * (l - n) <= k * (l - n)
    BY <1>2, MulMono
  <2> QED
    BY <1>2, <2>1
<1> QED
  BY <1>1, <1>2

(* The least of two numbers. *)
LEMMA MinOfTwo ==
    ASSUME NEW a \in Int, NEW b \in Int
    PROVE  Min({a, b}) = IF a <= b THEN a ELSE b
<1> DEFINE m == IF a <= b THEN a ELSE b
<1>1. m \in {a, b} /\ \A y \in {a, b} : m <= y
  OBVIOUS
<1>2. \A x \in {a, b} : (\A y \in {a, b} : x <= y) => x = m
  OBVIOUS
<1> QED
  BY <1>1, <1>2 DEF Min

-----------------------------------------------------------------------------
(* The first slot of a pair, the elements before it and those in it.  The prover sees the *)
(* numbers of one pair here, not the functions they come from.                            *)
RightShares ==
    /\ cardinality \in Nat
    /\ elements_per_segment \in 0 .. SegmentCapacity
    /\ cardinality % call.length \in 0 .. (call.length - 1)
    /\ cardinality = elements_per_segment * call.length + (cardinality % call.length)
    /\ cardinality % call.length > 0 => elements_per_segment < SegmentCapacity

(* The shares of a call add up to its elements, and fit the segments. *)
LEMMA CallShares ==
    ASSUME SpreadInPlaceAssumption, CallInv
    PROVE  RightShares
<1>1. call.length \in Nat \ {0} /\ call.batch \in Nat /\ SegmentCapacity \in Nat \ {0}
  BY DEF CallInv, SpreadInPlaceAssumption
<1>2. sizes \in [0 .. (call.length - 1) -> Nat]
  BY <1>1 DEF CallInv
<1>3. IsSizeBefore(SizeBefore(sizes, call.length), sizes, call.length)
  BY <1>1, <1>2, SizeBeforeIs
<1>4. SizeBefore(sizes, call.length)[call.length] \in Nat
  BY <1>1, <1>3 DEF IsSizeBefore
<1>5. Inserted \in Nat
  BY DEF Inserted
<1>6. cardinality \in Nat
  BY <1>1, <1>4, <1>5 DEF cardinality
<1>7. cardinality <= call.length * SegmentCapacity
  BY DEF CallInv
<1> QED
  BY <1>1, <1>6, <1>7, Shares DEF RightShares, elements_per_segment

(* A pair lies within its two segments, and what comes with it and after it fits the window. *)
PairPlaced(p) ==
    /\ PairStart(NewSizes, p) \in Int /\ p * SegmentCapacity <= PairStart(NewSizes, p)
    /\ PairSize(NewSizes, p) \in Nat
    /\ PairStart(NewSizes, p) + PairSize(NewSizes, p) <= (p + 2) * SegmentCapacity
    /\ NewBefore(p) \in Nat
    /\ NewBefore(p + 2) = NewBefore(p) + PairSize(NewSizes, p)
    /\ PairStart(NewSizes, p) + cardinality - NewBefore(p) <= call.length * SegmentCapacity

(* Where the elements of a pair go to lies inside the slots of the pair. *)
LEMMA PairsPlaced ==
    ASSUME SpreadInPlaceAssumption, CallInv, NEW p \in 0 .. (call.length - 2)
    PROVE  PairPlaced(p)
<1> DEFINE C == SegmentCapacity
           l == call.length
           e == elements_per_segment
           c == cardinality
           r == cardinality % call.length
           a == NewSizes[p]
           b == NewSizes[p + 1]
<1>1. l \in Nat \ {0} /\ C \in Nat \ {0} /\ DOMAIN sizes = 0 .. (l - 1)
  BY DEF CallInv, SpreadInPlaceAssumption
<1>2. /\ c \in Nat /\ e \in 0 .. C /\ r \in 0 .. (l - 1)
      /\ c = e * l + r
      /\ r > 0 => e < C
  BY CallShares DEF RightShares
<1>3. a = e + IF p < r THEN 1 ELSE 0
  BY <1>1 DEF NewSizes
<1>4. b = e + IF p + 1 < r THEN 1 ELSE 0
  BY <1>1 DEF NewSizes
<1>5. NewBefore(p) = e * p + IF p < r THEN p ELSE r
  BY DEF NewBefore
<1>6. NewBefore(p + 2) = e * (p + 2) + IF p + 2 < r THEN p + 2 ELSE r
  BY DEF NewBefore
<1>7. PairStart(NewSizes, p) = (p + 1) * C - a /\ PairSize(NewSizes, p) = a + b
  BY DEF PairStart, PairSize
<1> HIDE DEF C, l, e, c, r, a, b
<1>8. a \in 0 .. C /\ b \in 0 .. C
  BY <1>1, <1>2, <1>3, <1>4
<1>9. NewBefore(p) \in Nat
  <2>1. e * p \in Nat
    BY <1>2
  <2> QED
    BY <1>2, <1>5, <2>1
<1>10. NewBefore(p + 2) = NewBefore(p) + (a + b)
  BY <1>2, <1>3, <1>4, <1>5, <1>6
<1>11. e * l + r - (e * (p + 1) + IF p + 1 < r THEN p + 1 ELSE r) <= (l - (p + 1)) * C
  <2>1. p + 1 \in 0 .. l
    BY <1>1 DEF l
  <2> QED
    BY <1>1, <1>2, <2>1, RestFits
<1>12. e * (p + 1) + (IF p + 1 < r THEN p + 1 ELSE r) = NewBefore(p) + a
  BY <1>2, <1>3, <1>5
<1>13. PairStart(NewSizes, p) + c - NewBefore(p) <= l * C
  <2>1. c - (NewBefore(p) + a) <= (l - (p + 1)) * C
    BY <1>1, <1>2, <1>8, <1>9, <1>11, <1>12
  <2> QED
    BY <1>1, <1>2, <1>7, <1>8, <1>9, <2>1
<1>14. p * C <= PairStart(NewSizes, p) /\ PairStart(NewSizes, p) \in Int
  BY <1>1, <1>7, <1>8
<1>15. PairStart(NewSizes, p) + PairSize(NewSizes, p) <= (p + 2) * C /\ PairSize(NewSizes, p) \in Nat
  BY <1>1, <1>7, <1>8
<1> QED
  BY <1>7, <1>9, <1>10, <1>13, <1>14, <1>15 DEF PairPlaced, C, l, c

(* The first pair comes after no element, the end of the window after all. *)
LEMMA NewEnds ==
    ASSUME SpreadInPlaceAssumption, CallInv
    PROVE  NewBefore(0) = 0 /\ NewBefore(call.length) = cardinality
<1>1. call.length \in Nat \ {0}
  BY DEF CallInv
<1>2. RightShares
  BY CallShares
<1> QED
  BY <1>1, <1>2 DEF RightShares, NewBefore

(* The sizes of the window before the redistribution. *)
OldPlaced(p) ==
    /\ sizes[p] \in 0 .. SegmentCapacity /\ sizes[p + 1] \in 0 .. SegmentCapacity
    /\ PairSize(sizes, p) = sizes[p] + sizes[p + 1]
    /\ PairStart(sizes, p) = (p + 1) * SegmentCapacity - sizes[p]
    /\ SizeBefore(sizes, call.length)[p] \in Nat
    /\ SizeBefore(sizes, call.length)[p + 2] = SizeBefore(sizes, call.length)[p] + PairSize(sizes, p)

(* So does where they were. *)
LEMMA OldPairs ==
    ASSUME SpreadInPlaceAssumption, CallInv, NEW p \in 0 .. (call.length - 2)
    PROVE  OldPlaced(p)
<1> DEFINE S == SizeBefore(sizes, call.length)
<1>1. call.length \in Nat \ {0} /\ SegmentCapacity \in Nat \ {0}
  BY DEF CallInv, SpreadInPlaceAssumption
<1>2. sizes \in [0 .. (call.length - 1) -> Nat]
  BY <1>1 DEF CallInv
<1>3. IsSizeBefore(S, sizes, call.length)
  BY <1>1, <1>2, SizeBeforeIs
<1> HIDE DEF S
<1>4. S[p] \in Nat
  <2>1. S \in [0 .. call.length -> Nat]
    BY <1>3 DEF IsSizeBefore
  <2>2. p \in 0 .. call.length
    BY <1>1
  <2> QED
    BY <2>1, <2>2
<1>5. p + 1 \in 1 .. call.length /\ p + 2 \in 1 .. call.length /\ (p + 2) - 1 = p + 1 /\ (p + 1) - 1 = p
  BY <1>1
<1>6. S[p + 1] = S[p] + sizes[p]
  BY <1>3, <1>5 DEF IsSizeBefore
<1>7. S[p + 2] = S[p + 1] + sizes[p + 1]
  BY <1>3, <1>5 DEF IsSizeBefore
<1>8. sizes[p] \in 0 .. SegmentCapacity /\ sizes[p + 1] \in 0 .. SegmentCapacity
  <2>1. sizes \in [0 .. (call.length - 1) -> 0 .. SegmentCapacity]
    BY DEF CallInv
  <2>2. p \in 0 .. (call.length - 1) /\ p + 1 \in 0 .. (call.length - 1)
    BY <1>1
  <2> QED
    BY <2>1, <2>2
<1>9. S[p + 2] = S[p] + (sizes[p] + sizes[p + 1])
  BY <1>4, <1>6, <1>7, <1>8
<1> QED
  BY <1>4, <1>8, <1>9 DEF OldPlaced, PairSize, PairStart, S

(* No element lies before the first segment. *)
LEMMA OldEnds ==
    ASSUME SpreadInPlaceAssumption, CallInv
    PROVE  /\ SizeBefore(sizes, call.length)[0] = 0
           /\ SizeBefore(sizes, call.length)[call.length] \in Nat
<1>1. call.length \in Nat \ {0} /\ SegmentCapacity \in Nat \ {0}
  BY DEF CallInv, SpreadInPlaceAssumption
<1>2. sizes \in [0 .. (call.length - 1) -> Nat]
  BY <1>1 DEF CallInv
<1>3. IsSizeBefore(SizeBefore(sizes, call.length), sizes, call.length)
  BY <1>1, <1>2, SizeBeforeIs
<1> QED
  BY <1>1, <1>3 DEF IsSizeBefore

(* The buffer has room for a pair. *)
LEMMA BufferForPair ==
    ASSUME SpreadInPlaceAssumption, CallInv
    PROVE  /\ input_chunk2_capacity \in Nat
           /\ call.op = "spread" => input_chunk2_capacity = 4 * SegmentCapacity + 1
           /\ call.op = "merge" => input_chunk2_capacity >= 2 * SegmentCapacity
<1>1. call.length \in Nat /\ SegmentCapacity \in Nat /\ call.op \in {"spread", "merge"}
  BY DEF CallInv, SpreadInPlaceAssumption
<1>2. elements_per_segment \in Nat
  <2>1. RightShares
    BY CallShares
  <2> QED
    BY <1>1, <2>1 DEF RightShares
<1>3. call.length \div (elements_per_segment + 1) \in Nat
  BY <1>1, <1>2
<1> QED
  BY <1>1, <1>3 DEF input_chunk2_capacity

-----------------------------------------------------------------------------
(* A step changes neither the call nor the sizes, nor what is computed from them. *)
LEMMA SameCall ==
    ASSUME call' = call, sizes' = sizes
    PROVE  /\ cardinality' = cardinality /\ NewSizes' = NewSizes
           /\ input_chunk2_capacity' = input_chunk2_capacity
           /\ CallInv' = CallInv
           /\ \A p : /\ (NewBefore(p))' = NewBefore(p)
                     /\ (PairStart(NewSizes, p))' = PairStart(NewSizes, p)
                     /\ (PairSize(NewSizes, p))' = PairSize(NewSizes, p)
                     /\ (InsertedAfter(p))' = InsertedAfter(p)
<1>1. cardinality' = cardinality
  BY DEF cardinality, Inserted
<1>2. elements_per_segment' = elements_per_segment
  BY <1>1 DEF elements_per_segment
<1>3. NewSizes' = NewSizes
  BY <1>1, <1>2 DEF NewSizes
<1>4. input_chunk2_capacity' = input_chunk2_capacity
  BY <1>2 DEF input_chunk2_capacity
<1>5. CallInv' = CallInv
  BY <1>1 DEF CallInv
<1>6. ASSUME NEW p PROVE /\ (NewBefore(p))' = NewBefore(p)
                     /\ (PairStart(NewSizes, p))' = PairStart(NewSizes, p)
                     /\ (PairSize(NewSizes, p))' = PairSize(NewSizes, p)
                     /\ (InsertedAfter(p))' = InsertedAfter(p)
  BY <1>1, <1>2, <1>3 DEF NewBefore, PairStart, PairSize, InsertedAfter
<1> QED
  BY <1>1, <1>3, <1>4, <1>5, <1>6

-----------------------------------------------------------------------------
(* The first pair to compact is the last one of the window. *)
LEMMA InitIndInv ==
    ASSUME SpreadInPlaceAssumption, Init
    PROVE  IndInv
<1> DEFINE l == Cardinality(DOMAIN sizes)
<1>1. /\ SegmentCapacity \in Nat \ {0} /\ BatchSizes \subseteq Nat
      /\ IsFiniteSet(DOMAIN sizes) /\ l > 0 /\ l % 2 = 0
      /\ sizes \in [0 .. (l - 1) -> 0 .. SegmentCapacity]
  BY DEF SpreadInPlaceAssumption, Init
<1>2. l \in Nat
  BY <1>1, FS_CardinalityType
<1> HIDE DEF l
<1>3. DOMAIN sizes = 0 .. (l - 1)
  BY <1>1
<1>4. /\ call.op \in {"spread", "merge"} /\ call.length = l /\ call.batch \in Nat
      /\ call.insert \in -1 .. (l - 1)
      /\ call.op = "spread" => call.batch = 0
      /\ call.op = "merge" => call.insert = -1
  <2>1. CASE \E s \in DOMAIN sizes \union {-1} :
                call = [op |-> "spread", length |-> l, batch |-> 0, insert |-> s]
    BY <1>2, <1>3, <2>1
  <2>2. CASE \E n \in BatchSizes :
                call = [op |-> "merge", length |-> l, batch |-> n, insert |-> -1]
    BY <1>1, <1>2, <2>2
  <2> QED
    BY <2>1, <2>2 DEF Init, l
<1>5. CallInv
  BY <1>1, <1>2, <1>4 DEF CallInv, Init
<1>6. /\ phase = "compact" /\ pair = l - 2 /\ left = PairSize(sizes, pair)
      /\ chunk2 = 0 /\ chunk1 = 0 /\ output = 0 /\ read = 0 /\ loaded = 0
  BY <1>4 DEF Init
<1>7. pair \in 0 .. (l - 2) /\ pair % 2 = 0 /\ pair + 2 = l
  <2>1. l >= 2
    BY <1>1, <1>2
  <2> QED
    BY <1>1, <1>2, <1>6, <2>1
<1>8. OldPlaced(pair)
  BY <1>4, <1>5, <1>7, OldPairs
<1>9. left \in Nat
  BY SMTT(30), <1>1, <1>6, <1>8 DEF OldPlaced
<1>10. input_chunk2_capacity \in Nat
  BY <1>5, BufferForPair
<1>11. TypeInv
  BY <1>2, <1>4, <1>6, <1>7, <1>9, <1>10 DEF TypeInv
<1>12. InsertedAfter(pair) = 0
  BY <1>2, <1>4, <1>7 DEF InsertedAfter
<1>13. SizeBefore(sizes, call.length)[pair + 2] = SizeBefore(sizes, call.length)[pair] + left
  BY <1>6, <1>8 DEF OldPlaced
<1>14. 0 + 0 + left + SizeBefore(sizes, call.length)[pair] = SizeBefore(sizes, call.length)[call.length] + 0
  <2>1. SizeBefore(sizes, call.length)[pair] \in Nat
    BY <1>8 DEF OldPlaced
  <2> QED
    BY <1>4, <1>7, <1>9, <1>13, <2>1
<1>15. PairStart(sizes, pair) + left + 0 + 0 <= call.length * SegmentCapacity
  <2>1. /\ sizes[pair] \in 0 .. SegmentCapacity /\ sizes[pair + 1] \in 0 .. SegmentCapacity
        /\ left = sizes[pair] + sizes[pair + 1]
        /\ PairStart(sizes, pair) = (pair + 1) * SegmentCapacity - sizes[pair]
    BY <1>6, <1>8 DEF OldPlaced
  <2> DEFINE w == (pair + 1) * SegmentCapacity
  <2>2. w \in Int /\ call.length * SegmentCapacity = w + SegmentCapacity
    BY <1>1, <1>2, <1>4, <1>7
  <2> HIDE DEF w
  <2>3. PairStart(sizes, pair) = w - sizes[pair]
    BY <2>1 DEF w
  <2>4. sizes[pair] \in 0 .. SegmentCapacity /\ sizes[pair + 1] \in 0 .. SegmentCapacity
    BY <2>1
  <2>5. left = sizes[pair] + sizes[pair + 1]
    BY <2>1
  <2> QED
    BY <1>1, <2>2, <2>3, <2>4, <2>5
<1>16. pair >= call.length - 4 /\ 0 <= (call.length - 2 - pair) * SegmentCapacity + 0
  <2>1. l - 2 - pair = 0
    BY <1>2, <1>7
  <2> QED
    BY <1>1, <1>2, <1>4, <1>6, <2>1
<1>17. CompactInv
  BY <1>6, <1>9, <1>12, <1>14, <1>15, <1>16 DEF CompactInv
<1> QED
  BY <1>5, <1>6, <1>11, <1>17 DEF IndInv

(* The element counts of a step, as numbers. *)
LEMMA Balance ==
    ASSUME NEW c \in Int, NEW d \in Int, NEW l \in Int, NEW i \in Int, NEW j \in Int,
           NEW s \in Int, NEW t \in Int, NEW u \in Int, NEW w \in Int,
           d = c + l + i, c + l + s = t + j, s = u + w
    PROVE  d + w + u = t + (j + i)
OBVIOUS

(* What comes with a pair that was copied out or moved. *)
InsertedHere == IF InsertsHere THEN 1 ELSE 0

(* All that was left of a pair goes to one of the chunks. *)
PairMoved ==
    /\ NextPair(left)
    /\ call' = call /\ sizes' = sizes /\ read' = read /\ loaded' = loaded
    /\ chunk1' \in Nat /\ chunk2' \in Nat /\ chunk2' <= input_chunk2_capacity
    /\ chunk1' + chunk2' = chunk1 + chunk2 + left + InsertedHere
    /\ call.op = "spread" =>
          IF pair - 2 >= call.length - 4
          THEN /\ chunk1' = 0
               /\ chunk2' <= (call.length - pair) * SegmentCapacity + InsertedAfter(pair - 2)
          ELSE chunk1' <= (call.length - 4 - pair) * SegmentCapacity + InsertedAfter(pair - 2)

(* The compaction goes on with the pair before, or the window is filled, with the invariant. *)
LEMMA NextPairStep ==
    ASSUME SpreadInPlaceAssumption, IndInv, phase = "compact", PairMoved
    PROVE  IndInv'
<1> DEFINE S == SizeBefore(sizes, call.length)
           C == SegmentCapacity
<1>1. CallInv /\ TypeInv /\ CompactInv
  BY DEF IndInv
<1>2. /\ call.length \in Nat \ {0} /\ call.length % 2 = 0 /\ C \in Nat \ {0}
      /\ pair \in 0 .. (call.length - 1) /\ pair % 2 = 0
      /\ left \in Nat /\ chunk1 \in Nat /\ chunk2 \in Nat
      /\ call.insert \in -1 .. (call.length - 1) /\ call.batch \in Nat
      /\ call.op \in {"spread", "merge"}
  BY <1>1 DEF CallInv, TypeInv, SpreadInPlaceAssumption
<1>3. pair \in 0 .. (call.length - 2)
  BY <1>2
<1>4. /\ read = 0 /\ loaded = 0 /\ left <= PairSize(sizes, pair)
      /\ chunk1 + chunk2 + left + S[pair] = S[call.length] + InsertedAfter(pair)
      /\ call.op = "merge" => PairStart(sizes, pair) + left + chunk2 + chunk1 <= call.length * C
  BY <1>1 DEF CompactInv
<1> DEFINE ins == InsertedHere
<1>5. ins \in {0, 1} /\ InsertedAfter(pair) \in {0, 1} /\ InsertedAfter(pair - 2) = InsertedAfter(pair) + ins
  BY <1>2 DEF InsertedAfter, InsertsHere, InsertedHere
<1>11. /\ call' = call /\ sizes' = sizes /\ read' = read /\ loaded' = loaded
       /\ chunk1' \in Nat /\ chunk2' \in Nat /\ chunk2' <= input_chunk2_capacity
       /\ chunk1' + chunk2' = chunk1 + chunk2 + left + ins
  BY DEF PairMoved
<1>12. chunk1' \in Nat /\ chunk2' \in Nat
  BY <1>11
<1>6. S[call.length] \in Nat /\ S[0] = 0
  BY <1>1, OldEnds
<1>7. /\ cardinality' = cardinality /\ NewSizes' = NewSizes
      /\ input_chunk2_capacity' = input_chunk2_capacity
      /\ CallInv'
  BY <1>1, <1>11, SameCall
<1>8. /\ pair' = IF pair = 0 THEN 0 ELSE pair - 2
      /\ phase' = IF pair = 0 THEN "fill" ELSE "compact"
      /\ left' = IF pair = 0 THEN 0 ELSE PairSize(sizes, pair - 2)
      /\ output' = IF pair = 0 THEN PairStart(NewSizes, 0) ELSE output
  BY <1>2 DEF NextPair, PairMoved
<1>9. CASE pair = 0
  <2>1. pair' = 0 /\ phase' = "fill" /\ left' = 0 /\ output' = PairStart(NewSizes, 0)
    BY <1>8, <1>9
  <2>2. 0 \in 0 .. (call.length - 2)
    BY <1>3, <1>9
  <2>3. PairPlaced(0)
    BY <1>1, <2>2, PairsPlaced
  <2>4. PairStart(NewSizes, 0) \in Int /\ PairSize(NewSizes, 0) \in Nat
    BY <2>3 DEF PairPlaced
  <2>5. NewBefore(0) = 0
    BY <1>1, NewEnds
  <2>6. TypeInv'
    BY <1>2, <1>4, <1>7, <1>11, <2>1, <2>4 DEF TypeInv
  <2>7. InsertedAfter(0) + ins = Inserted /\ Inserted \in {0, 1}
    BY <1>2, <1>9 DEF InsertedAfter, InsertsHere, InsertedHere, Inserted
  <2>8. chunk1' + chunk2' + call.batch = cardinality
    <3>1. cardinality = S[call.length] + call.batch + Inserted
      BY DEF cardinality
    <3>2. chunk1 + chunk2 + left + 0 = S[call.length] + InsertedAfter(0)
      BY <1>4, <1>6, <1>9
    <3>3. InsertedAfter(0) \in {0, 1}
      BY <1>5, <1>9
    <3> DEFINE d == chunk1' + chunk2'
               c == chunk1 + chunk2
    <3>4. d \in Int /\ c \in Int /\ ins \in Int /\ InsertedAfter(0) \in Int
      BY <1>2, <1>5, <1>12, <3>3
    <3>5. d = c + left + ins
      BY <1>11
    <3>6. c + left + 0 = S[call.length] + InsertedAfter(0)
      BY <3>2
    <3> HIDE DEF S, ins, d, c
    <3>7. d + 0 + 0 = S[call.length] + (InsertedAfter(0) + ins)
      BY <1>2, <1>6, <3>4, <3>5, <3>6, Balance
    <3>8. d + call.batch = cardinality
      BY <1>2, <1>6, <2>7, <3>1, <3>4, <3>7
    <3> QED
      BY <3>8 DEF d
  <2>9. (Input + call.batch = cardinality)'
    BY <1>7, <1>11, <2>8 DEF Input
  <2>10. Input' \in Nat
    <3>1. Input' = chunk1' + chunk2'
      BY DEF Input
    <3>2. \A x, y \in Nat : x + y \in Nat
      OBVIOUS
    <3> QED
      BY <1>12, <3>1, <3>2, Zenon
  <2>11. (output_end)' = PairStart(NewSizes, 0) + PairSize(NewSizes, 0)
    BY <1>7, <2>1 DEF output_end
  <2>12. (NewBefore(pair))' = 0
    <3>1. (NewBefore(pair))' = NewBefore(0)
      BY <2>1, <1>7, <1>11 DEF NewBefore, elements_per_segment
    <3> QED
      BY <2>5, <3>1
  <2>13. (PairStart(NewSizes, pair))' = PairStart(NewSizes, 0)
    BY <1>7, <2>1 DEF PairStart
  <2>14. FillInv'
    BY <1>2, <1>4, <1>11, <2>1, <2>4, <2>9, <2>10, <2>11, <2>12, <2>13 DEF FillInv
  <2> QED
    BY <1>7, <2>1, <2>6, <2>14 DEF IndInv
<1>10. CASE pair # 0
  <2>1. pair' = pair - 2 /\ phase' = "compact" /\ left' = PairSize(sizes, pair - 2) /\ output' = output
    BY <1>8, <1>10
  <2>2. pair - 2 \in 0 .. (call.length - 2) /\ (pair - 2) % 2 = 0 /\ (pair - 2) + 2 = pair
    BY <1>2, <1>10
  <2>3. OldPlaced(pair - 2) /\ OldPlaced(pair)
    BY <1>1, <1>3, <2>2, OldPairs
  <2> DEFINE a == sizes[pair - 2]
             b == sizes[(pair - 2) + 1]
  <2>4. /\ a \in 0 .. C /\ b \in 0 .. C /\ PairSize(sizes, pair - 2) = a + b
        /\ PairStart(sizes, pair - 2) = (pair - 2 + 1) * C - a
        /\ S[pair - 2] \in Nat
    BY <2>3 DEF OldPlaced
  <2>5. S[pair] = S[pair - 2] + (a + b)
    BY <2>2, <2>3 DEF OldPlaced
  <2>6. sizes[pair] \in 0 .. C /\ PairStart(sizes, pair) = (pair + 1) * C - sizes[pair]
    BY <2>3 DEF OldPlaced
  <2> HIDE DEF a, b, S, C, ins
  <2>7. left' \in Nat /\ left' = a + b
    BY <1>2, <2>1, <2>4
  <2>8. TypeInv'
    <3>1. output' \in Int
      BY <1>1, <2>1 DEF TypeInv
    <3>2. (pair \in 0 .. call.length /\ pair % 2 = 0 /\ (phase # "done" => pair < call.length))'
      BY <1>2, <1>11, <2>1, <2>2
    <3> QED
      BY <1>4, <1>7, <1>11, <2>1, <2>7, <3>1, <3>2 DEF TypeInv
  <2>9. chunk1' + chunk2' + left' + S[pair - 2] = S[call.length] + InsertedAfter(pair - 2)
    <3> DEFINE d == chunk1' + chunk2'
               c == chunk1 + chunk2
    <3>1. d \in Int /\ c \in Int /\ ins \in Int /\ InsertedAfter(pair) \in Int
      BY <1>2, <1>5, <1>12
    <3>2. d = c + left + ins
      BY <1>11
    <3>3. c + left + S[pair] = S[call.length] + InsertedAfter(pair)
      BY <1>4
    <3> DEFINE w == a + b
    <3>4. w \in Int /\ S[pair - 2] \in Int
      BY <1>2, <2>4
    <3>5. S[pair] = S[pair - 2] + w
      BY <2>5
    <3>6. S[pair] \in Int
      BY <3>4, <3>5
    <3> HIDE DEF d, c, w
    <3>7. d + w + S[pair - 2] = S[call.length] + (InsertedAfter(pair) + ins)
      BY <1>2, <1>6, <3>1, <3>2, <3>3, <3>4, <3>5, <3>6, Balance
    <3>8. left' = w /\ InsertedAfter(pair - 2) = InsertedAfter(pair) + ins
      BY <1>5, <2>7 DEF w
    <3> QED
      BY <3>7, <3>8 DEF d
  <2>10. call.op = "merge" => PairStart(sizes, pair - 2) + left' + chunk2' + chunk1' <= call.length * C
    <3> SUFFICES ASSUME call.op = "merge"
                 PROVE  PairStart(sizes, pair - 2) + left' + chunk2' + chunk1' <= call.length * C
      OBVIOUS
    <3>1. ins = 0
      BY <1>1, <1>2 DEF CallInv, InsertsHere, InsertedHere, ins
    <3>2. (pair - 2 + 1) * C + C = pair * C /\ (pair + 1) * C = pair * C + C
      BY <1>2
    <3>3. call.length * C \in Int /\ pair * C \in Int /\ (pair - 2 + 1) * C \in Int
      BY <1>2
    <3> DEFINE d == chunk1' + chunk2'
               c == chunk1 + chunk2
               x == pair * C
               z == call.length * C
    <3>4. d \in Int /\ c \in Int
      BY <1>2, <1>12
    <3>5. d = c + left + 0
      BY <1>11, <3>1
    <3>6. PairStart(sizes, pair) = x + C - sizes[pair]
      BY <1>2, <2>6, <3>2, <3>3
    <3>7. PairStart(sizes, pair - 2) = x - C - a
      BY <1>2, <2>4, <3>2, <3>3
    <3>8. PairStart(sizes, pair) + left + chunk2 + chunk1 <= z
      BY <1>4
    <3>9. x \in Int /\ z \in Int
      BY <3>3
    <3> HIDE DEF x, z
    <3>10. PairStart(sizes, pair) \in Int /\ PairStart(sizes, pair) >= x
      BY <1>2, <2>6, <3>6, <3>9
    <3>11. x + d <= z
      <4>1. PairStart(sizes, pair) + left + c <= z
        BY <1>2, <3>8, <3>9, <3>10
      <4> HIDE DEF d, c
      <4> QED
        BY <1>2, <3>4, <3>5, <3>9, <3>10, <4>1
    <3>12. PairStart(sizes, pair - 2) \in Int /\ PairStart(sizes, pair - 2) + (a + b) <= x
      BY <1>2, <2>4, <3>7, <3>9
    <3> HIDE DEF c
    <3>13. PairStart(sizes, pair - 2) + left' + d <= z
      <4>1. left' = a + b /\ left' \in Int
        BY <2>7
      <4> HIDE DEF d
      <4> QED
        BY <3>4, <3>9, <3>11, <3>12, <4>1
    <3>14. left' \in Int
      BY <2>7
    <3>15. PairStart(sizes, pair - 2) + left' + chunk2' + chunk1' <= z
      BY <1>12, <3>9, <3>12, <3>13, <3>14
    <3> QED
      BY <3>15 DEF z
  <2>11. call.op = "spread" =>
            IF pair - 2 >= call.length - 4
            THEN /\ chunk1' = 0
                 /\ chunk2' <= (call.length - 2 - (pair - 2)) * C + InsertedAfter(pair - 2)
            ELSE chunk1' <= (call.length - 6 - (pair - 2)) * C + InsertedAfter(pair - 2)
    <3>1. call.length - 2 - (pair - 2) = call.length - pair /\ call.length - 6 - (pair - 2) = call.length - 4 - pair
      BY <1>2
    <3> QED
      BY <3>1 DEF C, PairMoved
  <2>12. (InsertedAfter(pair))' = InsertedAfter(pair - 2)
    BY <1>11, <2>1 DEF InsertedAfter
  <2>13. /\ (PairSize(sizes, pair))' = PairSize(sizes, pair - 2)
         /\ (PairStart(sizes, pair))' = PairStart(sizes, pair - 2)
         /\ (SizeBefore(sizes, call.length)[pair])' = S[pair - 2]
         /\ (SizeBefore(sizes, call.length)[call.length])' = S[call.length]
    BY <1>11, <2>1 DEF PairSize, PairStart, S
  <2>14. CompactInv'
    <3>1. (left <= PairSize(sizes, pair))'
      BY <2>1, <2>7, <2>13
    <3>2. (chunk1 + chunk2 + left + SizeBefore(sizes, call.length)[pair]
           = SizeBefore(sizes, call.length)[call.length] + InsertedAfter(pair))'
      BY <1>11, <2>9, <2>12, <2>13
    <3>3. (call.op = "merge" =>
             PairStart(sizes, pair) + left + chunk2 + chunk1 <= call.length * SegmentCapacity)'
      BY <1>11, <2>10, <2>13 DEF C
    <3>4. (call.op = "spread" =>
             IF pair >= call.length - 4
             THEN chunk1 = 0 /\ chunk2 <= (call.length - 2 - pair) * SegmentCapacity + InsertedAfter(pair)
             ELSE chunk1 <= (call.length - 6 - pair) * SegmentCapacity + InsertedAfter(pair))'
      BY <1>11, <2>1, <2>11, <2>12 DEF C
    <3> QED
      BY <1>4, <1>11, <3>1, <3>2, <3>3, <3>4 DEF CompactInv
  <2> QED
    BY <1>7, <2>1, <2>8, <2>14 DEF IndInv
<1> QED
  BY <1>9, <1>10

(* The facts about a pair that the two steps of the compaction use. *)
PairKnown ==
    /\ call.length \in Nat \ {0} /\ call.length % 2 = 0 /\ SegmentCapacity \in Nat \ {0}
    /\ pair \in 0 .. (call.length - 2) /\ pair % 2 = 0
    /\ left \in Nat /\ left <= 2 * SegmentCapacity
    /\ chunk1 \in Nat /\ chunk2 \in Nat /\ chunk2 <= input_chunk2_capacity
    /\ input_chunk2_capacity \in Nat
    /\ call.op \in {"spread", "merge"}
    /\ InsertedHere \in {0, 1} /\ InsertedAfter(pair) \in {0, 1} /\ InsertedAfter(pair - 2) \in {0, 1}
    /\ InsertedAfter(pair - 2) = InsertedAfter(pair) + InsertedHere
    /\ call.op = "merge" => InsertedHere = 0
    /\ call.op = "spread" => input_chunk2_capacity = 4 * SegmentCapacity + 1

(* What the invariant says of the pair that is compacted next. *)
LEMMA PairIsKnown ==
    ASSUME SpreadInPlaceAssumption, IndInv, phase = "compact"
    PROVE  PairKnown
<1>1. CallInv /\ TypeInv /\ CompactInv
  BY DEF IndInv
<1>2. /\ call.length \in Nat \ {0} /\ call.length % 2 = 0 /\ SegmentCapacity \in Nat \ {0}
      /\ pair \in 0 .. (call.length - 1) /\ pair % 2 = 0
      /\ left \in Nat /\ chunk1 \in Nat /\ chunk2 \in Nat /\ chunk2 <= input_chunk2_capacity
      /\ call.insert \in -1 .. (call.length - 1)
      /\ call.op \in {"spread", "merge"} /\ (call.op = "merge" => call.insert = -1)
  BY <1>1 DEF CallInv, TypeInv, SpreadInPlaceAssumption
<1>3. pair \in 0 .. (call.length - 2)
  BY <1>2
<1>4. InsertedHere \in {0, 1} /\ InsertedAfter(pair) \in {0, 1} /\ InsertedAfter(pair - 2) \in {0, 1}
  BY DEF InsertedAfter, InsertedHere
<1>5. InsertedAfter(pair - 2) = InsertedAfter(pair) + InsertedHere
  BY <1>2 DEF InsertedAfter, InsertsHere, InsertedHere
<1>6. call.op = "merge" => InsertedHere = 0
  BY <1>2 DEF InsertsHere, InsertedHere
<1>7. input_chunk2_capacity \in Nat /\ (call.op = "spread" => input_chunk2_capacity = 4 * SegmentCapacity + 1)
  BY <1>1, BufferForPair
<1>8. left <= 2 * SegmentCapacity
  <2>1. OldPlaced(pair)
    BY <1>1, <1>3, OldPairs
  <2>2. left <= PairSize(sizes, pair)
    BY <1>1 DEF CompactInv
  <2> QED
    BY <1>2, <2>1, <2>2 DEF OldPlaced
<1> QED
  BY <1>2, <1>3, <1>4, <1>5, <1>6, <1>7, <1>8 DEF PairKnown

(* A chunk with the elements of the pairs behind has room for those of two segments more. *)
LEMMA TwoMore ==
    ASSUME NEW x \in Int, NEW k \in Nat, NEW c \in Int, NEW l \in Int, NEW i \in Int, NEW j \in Int,
           c <= x * k + j, l <= 2 * k
    PROVE  c + l + i <= (x + 2) * k + (j + i)
<1> DEFINE y == x * k
<1>1. y \in Int /\ (x + 2) * k = y + 2 * k
  OBVIOUS
<1>2. c <= y + j
  OBVIOUS
<1> HIDE DEF y
<1>3. c + l + i <= y + 2 * k + (j + i)
  BY <1>1, <1>2
<1> QED
  BY <1>1, <1>3

(* Compacting a pair within the window keeps the invariant. *)
LEMMA MoveToEndStep ==
    ASSUME SpreadInPlaceAssumption, IndInv, MoveToEnd
    PROVE  IndInv'
<1>1. /\ phase = "compact" /\ ~ CopiesOut /\ NextPair(left)
      /\ chunk1' = chunk1 + left + InsertedHere
      /\ call' = call /\ sizes' = sizes /\ chunk2' = chunk2 /\ read' = read /\ loaded' = loaded
  BY DEF MoveToEnd, InsertedHere
<1>2. PairKnown
  BY <1>1, PairIsKnown
<1>3. /\ call.length \in Nat \ {0} /\ SegmentCapacity \in Nat \ {0}
      /\ pair \in 0 .. (call.length - 2) /\ pair % 2 = 0
      /\ left \in Nat /\ left <= 2 * SegmentCapacity
      /\ chunk1 \in Nat /\ chunk2 \in Nat /\ chunk2 <= input_chunk2_capacity
      /\ InsertedHere \in {0, 1} /\ InsertedAfter(pair) \in {0, 1}
  BY <1>2 DEF PairKnown
<1>4. InsertedAfter(pair - 2) = InsertedAfter(pair) + InsertedHere
  BY <1>2 DEF PairKnown
<1>5. chunk1' \in Nat /\ chunk2' \in Nat /\ chunk2' <= input_chunk2_capacity
  BY <1>1, <1>3
<1>6. chunk1' + chunk2' = chunk1 + chunk2 + left + InsertedHere
  BY <1>1, <1>3
<1>7. ASSUME call.op = "spread"
      PROVE  /\ ~ (pair - 2 >= call.length - 4)
             /\ chunk1' <= (call.length - 4 - pair) * SegmentCapacity + InsertedAfter(pair - 2)
  <2>1. ~ (pair >= call.length - 4)
    BY <1>1, <1>7 DEF CopiesOut
  <2> DEFINE x == call.length - 6 - pair
  <2>2. chunk1 <= x * SegmentCapacity + InsertedAfter(pair)
    BY <1>1, <1>7, <2>1 DEF IndInv, CompactInv
  <2>3. x \in Int /\ call.length - 4 - pair = x + 2
    BY <1>3
  <2> HIDE DEF x
  <2>4. chunk1 + left + InsertedHere <= (x + 2) * SegmentCapacity + (InsertedAfter(pair) + InsertedHere)
    BY <1>3, <2>2, <2>3, TwoMore
  <2>5. ~ (pair - 2 >= call.length - 4)
    BY <1>3, <2>1
  <2> QED
    BY <1>1, <1>4, <2>3, <2>4, <2>5
<1>8. PairMoved
  BY <1>1, <1>5, <1>6, <1>7 DEF PairMoved
<1> QED
  BY <1>1, <1>8, NextPairStep

(* So does copying a pair, or the last four segments, out of it. *)
LEMMA CopyOutStep ==
    ASSUME SpreadInPlaceAssumption, IndInv, CopyOut
    PROVE  IndInv'
<1> DEFINE moved == IF call.op = "spread" THEN left ELSE Min({left, input_chunk2_capacity - chunk2})
<1>1. /\ phase = "compact" /\ CopiesOut /\ NextPair(moved)
      /\ chunk2' = chunk2 + moved + InsertedHere
      /\ call' = call /\ sizes' = sizes /\ chunk1' = chunk1 /\ read' = read /\ loaded' = loaded
  BY DEF CopyOut, InsertedHere
<1>2. PairKnown
  BY <1>1, PairIsKnown
<1>3. /\ call.length \in Nat \ {0} /\ call.length % 2 = 0 /\ SegmentCapacity \in Nat \ {0}
      /\ pair \in 0 .. (call.length - 2) /\ pair % 2 = 0
      /\ left \in Nat /\ left <= 2 * SegmentCapacity
      /\ chunk1 \in Nat /\ chunk2 \in Nat /\ chunk2 <= input_chunk2_capacity
      /\ input_chunk2_capacity \in Nat
      /\ InsertedHere \in {0, 1} /\ InsertedAfter(pair) \in {0, 1} /\ InsertedAfter(pair - 2) \in {0, 1}
      /\ call.op \in {"spread", "merge"}
  BY <1>2 DEF PairKnown
<1>4. InsertedAfter(pair - 2) = InsertedAfter(pair) + InsertedHere
  BY <1>2 DEF PairKnown
<1>5. CASE call.op = "spread"
  <2>1. moved = left /\ pair >= call.length - 4
    BY <1>1, <1>5 DEF CopiesOut
  <2>2. NextPair(left) /\ chunk2' = chunk2 + left + InsertedHere
    BY <1>1, <2>1
  <2> DEFINE x == call.length - 2 - pair
  <2>3. chunk1 = 0 /\ chunk2 <= x * SegmentCapacity + InsertedAfter(pair)
    BY <1>1, <1>5, <2>1 DEF IndInv, CompactInv
  <2>4. x \in Int /\ call.length - pair = x + 2 /\ x + 2 <= 4
    BY <1>3, <2>1
  <2> HIDE DEF x, moved
  <2>5. chunk2 + left + InsertedHere <= (x + 2) * SegmentCapacity + (InsertedAfter(pair) + InsertedHere)
    BY <1>3, <2>3, <2>4, TwoMore
  <2>6. chunk2' <= (x + 2) * SegmentCapacity + InsertedAfter(pair - 2)
    BY <1>4, <2>2, <2>5
  <2>7. chunk1' \in Nat /\ chunk2' \in Nat
    BY <1>1, <1>3, <2>2
  <2>8. chunk2' <= input_chunk2_capacity
    <3> DEFINE y == (x + 2) * SegmentCapacity
    <3>1. y <= 4 * SegmentCapacity /\ y \in Int
      BY <1>3, <2>4, MulMono
    <3>2. input_chunk2_capacity = 4 * SegmentCapacity + 1
      BY <1>2, <1>5 DEF PairKnown
    <3>3. chunk2' <= y + InsertedAfter(pair - 2)
      BY <2>6
    <3> HIDE DEF y
    <3> QED
      BY <1>3, <2>7, <3>1, <3>2, <3>3
  <2>9. chunk1' + chunk2' = chunk1 + chunk2 + left + InsertedHere
    BY <1>1, <1>3, <2>2
  <2>10. CASE pair - 2 >= call.length - 4
    <3>1. chunk1' = 0 /\ chunk2' <= (call.length - pair) * SegmentCapacity + InsertedAfter(pair - 2)
      BY <1>1, <2>3, <2>4, <2>6
    <3>2. PairMoved
      BY <1>1, <2>2, <2>7, <2>8, <2>9, <2>10, <3>1 DEF PairMoved
    <3> QED
      BY <1>1, <3>2, NextPairStep
  <2>11. CASE ~ (pair - 2 >= call.length - 4)
    <3>1. call.length - 4 - pair = 0
      BY <1>3, <2>1, <2>11
    <3>2. 0 * SegmentCapacity = 0
      BY <1>3
    <3>3. chunk1' <= (call.length - 4 - pair) * SegmentCapacity + InsertedAfter(pair - 2)
      BY <1>1, <1>3, <2>3, <3>1, <3>2
    <3>4. PairMoved
      BY <1>1, <2>2, <2>7, <2>8, <2>9, <2>11, <3>3 DEF PairMoved
    <3> QED
      BY <1>1, <3>4, NextPairStep
  <2> QED
    BY <2>10, <2>11
<1>6. CASE call.op = "merge"
  <2>1. InsertedHere = 0 /\ call.op # "spread"
    BY <1>2, <1>6 DEF PairKnown
  <2>2. chunk2 < input_chunk2_capacity
    BY <1>1, <2>1 DEF CopiesOut
  <2> DEFINE room == input_chunk2_capacity - chunk2
  <2>3. room \in Nat \ {0} /\ chunk2 + room = input_chunk2_capacity
    BY <1>3, <2>2
  <2>4. moved = Min({left, room})
    BY <2>1
  <2> HIDE DEF moved, room
  <2>5. moved = IF left <= room THEN left ELSE room
    BY <1>3, <2>3, <2>4, MinOfTwo
  <2>6. moved \in 0 .. left /\ chunk2 + moved <= input_chunk2_capacity
    BY <1>3, <2>3, <2>5
  <2>7. chunk2' = chunk2 + moved
    BY <1>1, <1>3, <2>1, <2>6
  <2>8. chunk2' \in Nat /\ chunk2' <= input_chunk2_capacity /\ chunk1' \in Nat
    BY <1>1, <1>3, <2>6, <2>7
  <2>9. CASE left > moved
    <3>1. left' = left - moved /\ pair' = pair /\ phase' = phase /\ output' = output
      BY <1>1, <2>9 DEF NextPair
    <3>2. left' \in Nat /\ left' <= left
      BY <1>3, <2>6, <3>1
    <3>3. CallInv' /\ input_chunk2_capacity' = input_chunk2_capacity
      BY <1>1, SameCall DEF IndInv
    <3>4. TypeInv'
      BY <1>1, <2>8, <3>1, <3>2, <3>3 DEF IndInv, TypeInv
    <3> DEFINE s == SizeBefore(sizes, call.length)[pair]
               t == SizeBefore(sizes, call.length)[call.length] + InsertedAfter(pair)
               q == PairStart(sizes, pair)
    <3>5. OldPlaced(pair)
      BY <1>3, OldPairs DEF IndInv
    <3>6. s \in Nat /\ q \in Int /\ PairSize(sizes, pair) \in Int
      BY <1>3, <3>5 DEF OldPlaced
    <3>7. chunk1 + chunk2 + left + s = t /\ q + left + chunk2 + chunk1 <= call.length * SegmentCapacity
      BY <1>1, <1>6 DEF IndInv, CompactInv
    <3>8. left <= PairSize(sizes, pair) /\ read = 0 /\ loaded = 0
      BY <1>1 DEF IndInv, CompactInv
    <3>9. t' = t /\ s' = s /\ q' = q /\ (PairSize(sizes, pair))' = PairSize(sizes, pair)
      BY <1>1, <3>1 DEF InsertedAfter, PairStart, PairSize
    <3> HIDE DEF s, t, q
    <3>10. chunk1' + chunk2' + left' = chunk1 + chunk2 + left
      BY <1>1, <1>3, <2>6, <2>7, <3>1
    <3>11. left' + chunk2' = left + chunk2
      BY <1>3, <2>6, <2>7, <3>1
    <3>12. chunk1' + chunk2' + left' + s = t
      BY <3>7, <3>10
    <3>13. q + left' + chunk2' + chunk1' <= call.length * SegmentCapacity
      <4> DEFINE z == call.length * SegmentCapacity
                 v == left + chunk2
      <4>1. z \in Int /\ v \in Int
        BY <1>3
      <4>2. q + v + chunk1 <= z
        BY <1>3, <3>6, <3>7
      <4> HIDE DEF z
      <4>3. left' + chunk2' = v
        BY <3>11
      <4> HIDE DEF v
      <4>4. q + (left' + chunk2') + chunk1' <= z
        BY <1>1, <4>2, <4>3
      <4>5. q + left' + chunk2' + chunk1' <= z
        <5>1. left' \in Int /\ chunk2' \in Int /\ chunk1' \in Int /\ q \in Int /\ z \in Int
          BY <2>8, <3>2, <3>6, <4>1
        <5>2. q + (left' + chunk2') + chunk1' = q + left' + chunk2' + chunk1'
          BY <5>1
        <5> QED
          BY <4>4, <5>2, Zenon
      <4> QED
        BY <4>5 DEF z
    <3>14. left' <= PairSize(sizes, pair)
      BY <1>3, <3>2, <3>6, <3>8
    <3>15. CompactInv'
      <4>1. (left <= PairSize(sizes, pair))' /\ (read = 0 /\ loaded = 0)'
        BY <1>1, <3>8, <3>9, <3>14
      <4>2. (chunk1 + chunk2 + left + SizeBefore(sizes, call.length)[pair]
             = SizeBefore(sizes, call.length)[call.length] + InsertedAfter(pair))'
        BY <3>9, <3>12 DEF s, t
      <4>3. (PairStart(sizes, pair) + left + chunk2 + chunk1 <= call.length * SegmentCapacity)'
        BY <1>1, <3>9, <3>13 DEF q
      <4>4. (call.op # "spread")'
        BY <1>1, <2>1
      <4> QED
        BY <4>1, <4>2, <4>3, <4>4 DEF CompactInv
    <3> QED
      BY <1>1, <3>1, <3>3, <3>4, <3>15 DEF IndInv
  <2>10. CASE ~ (left > moved)
    <3>1. moved = left
      BY <1>3, <2>6, <2>10
    <3>2. NextPair(left) /\ chunk2' = chunk2 + left
      BY <1>1, <2>7, <3>1
    <3>3. chunk1' + chunk2' = chunk1 + chunk2 + left + InsertedHere
      BY <1>1, <1>3, <2>1, <3>2
    <3>4. PairMoved
      BY <1>1, <2>1, <2>8, <3>2, <3>3 DEF PairMoved
    <3> QED
      BY <1>1, <3>4, NextPairStep
  <2> QED
    BY <2>9, <2>10
<1> QED
  BY <1>3, <1>5, <1>6

-----------------------------------------------------------------------------
(* The facts about a pair being filled. *)
FillKnown ==
    /\ call.length \in Nat \ {0} /\ pair \in 0 .. (call.length - 2) /\ pair % 2 = 0
    /\ left \in Nat /\ chunk1 \in Nat /\ chunk2 \in Nat /\ call.batch \in Nat
    /\ output \in Int /\ output_end \in Int /\ read \in Nat /\ loaded \in Nat /\ Input \in Nat
    /\ PairStart(NewSizes, pair) \in Int /\ NewBefore(pair) \in Nat
    /\ output_end = PairStart(NewSizes, pair) + PairSize(NewSizes, pair)
    /\ PairStart(NewSizes, pair) <= output /\ output <= output_end
    /\ read <= Input /\ loaded <= call.batch
    /\ read + loaded = NewBefore(pair) + (output - PairStart(NewSizes, pair))

(* What the invariant says of the pair that is filled next. *)
LEMMA FillIsKnown ==
    ASSUME SpreadInPlaceAssumption, IndInv, phase = "fill"
    PROVE  FillKnown /\ PairPlaced(pair)
<1>1. CallInv /\ TypeInv /\ FillInv
  BY DEF IndInv
<1>2. /\ call.length \in Nat \ {0} /\ call.length % 2 = 0 /\ call.batch \in Nat
      /\ pair \in 0 .. (call.length - 1) /\ pair % 2 = 0
  BY <1>1 DEF CallInv, TypeInv
<1>3. pair \in 0 .. (call.length - 2)
  BY <1>2
<1>4. PairPlaced(pair)
  BY <1>1, <1>3, PairsPlaced
<1>5. PairStart(NewSizes, pair) \in Int /\ PairSize(NewSizes, pair) \in Nat /\ NewBefore(pair) \in Nat
  BY <1>4 DEF PairPlaced
<1>6. output_end = PairStart(NewSizes, pair) + PairSize(NewSizes, pair)
  BY DEF output_end
<1>7. output_end \in Int
  BY <1>5, <1>6
<1>8. /\ left \in Nat /\ chunk1 \in Nat /\ chunk2 \in Nat
      /\ output \in Int /\ read \in Nat /\ loaded \in Nat
  BY <1>1 DEF TypeInv
<1>9. Input \in Nat
  BY <1>8 DEF Input
<1>10. /\ PairStart(NewSizes, pair) <= output /\ output <= output_end
       /\ read <= Input /\ loaded <= call.batch
       /\ read + loaded = NewBefore(pair) + (output - PairStart(NewSizes, pair))
  BY <1>1 DEF FillInv
<1> QED
  BY <1>2, <1>3, <1>4, <1>5, <1>6, <1>7, <1>8, <1>9, <1>10 DEF FillKnown

(* n elements are written, and read or loaded. *)
Filled(n) ==
    /\ Advance(n) /\ output + n <= output_end
    /\ call' = call /\ sizes' = sizes /\ left' = left /\ chunk2' = chunk2 /\ chunk1' = chunk1
    /\ read' \in Nat /\ loaded' \in Nat /\ read' <= Input /\ loaded' <= call.batch
    /\ read' + loaded' = read + loaded + n

(* Filling a pair with n elements of the chunks and the rest of the batch keeps it. *)
LEMMA FilledStep ==
    ASSUME SpreadInPlaceAssumption, IndInv, phase = "fill", NEW n \in Nat, Filled(n)
    PROVE  IndInv'
<1>1. FillKnown /\ PairPlaced(pair) /\ CallInv /\ TypeInv /\ FillInv
  BY FillIsKnown DEF IndInv
<1>2. /\ call.length \in Nat \ {0} /\ pair \in 0 .. (call.length - 2) /\ pair % 2 = 0
      /\ output \in Int /\ output_end \in Int /\ read \in Nat /\ loaded \in Nat
      /\ PairStart(NewSizes, pair) \in Int /\ NewBefore(pair) \in Nat
  BY <1>1 DEF FillKnown
<1>3. /\ call' = call /\ sizes' = sizes /\ left' = left /\ chunk2' = chunk2 /\ chunk1' = chunk1
      /\ read' \in Nat /\ loaded' \in Nat /\ read' <= Input /\ loaded' <= call.batch
      /\ output + n <= output_end
  BY DEF Filled
<1> DEFINE start == PairStart(NewSizes, pair)
           done == read' + loaded'
<1>4. done = NewBefore(pair) + (output + n - start)
  <2>1. done = read + loaded + n
    BY DEF Filled
  <2>2. read + loaded = NewBefore(pair) + (output - start)
    BY <1>1 DEF FillKnown
  <2> HIDE DEF start
  <2>3. start \in Int
    BY <1>2 DEF start
  <2> DEFINE x == read + loaded
  <2>4. done = x + n /\ x = NewBefore(pair) + (output - start) /\ x \in Int
    BY <1>2, <2>1, <2>2
  <2> HIDE DEF x, done
  <2> QED
    BY <1>2, <2>3, <2>4
<1>5. /\ cardinality' = cardinality /\ NewSizes' = NewSizes
      /\ input_chunk2_capacity' = input_chunk2_capacity
      /\ CallInv'
      /\ \A p : (NewBefore(p))' = NewBefore(p)
  BY <1>1, <1>3, SameCall
<1>6. Input' = Input /\ (Input + call.batch = cardinality)'
  BY <1>1, <1>3, <1>5 DEF Input, FillInv
<1>7. CASE output + n < output_end
  <2>1. output' = output + n /\ pair' = pair /\ phase' = "fill"
    BY <1>7 DEF Filled, Advance
  <2>2. TypeInv'
    BY <1>1, <1>2, <1>3, <1>5, <2>1 DEF TypeInv
  <2>3. /\ (PairStart(NewSizes, pair))' = start /\ (output_end)' = output_end
        /\ (NewBefore(pair))' = NewBefore(pair)
    BY <1>3, <1>5, <2>1 DEF PairStart, PairSize, output_end, NewBefore, elements_per_segment
  <2>4. start <= output
    BY <1>1 DEF FillKnown
  <2> HIDE DEF start
  <2>5. start \in Int
    BY <1>2 DEF start
  <2>6. start <= output'
    BY <1>2, <2>1, <2>4, <2>5
  <2>7. output' <= output_end
    BY <1>3, <2>1
  <2>8. done = NewBefore(pair) + (output' - start)
    <3>1. done \in Int
      BY <1>3
    <3>2. output' = output + n
      BY <2>1
    <3> HIDE DEF done
    <3> QED
      BY <1>2, <1>4, <2>5, <3>1, <3>2
  <2>9. (PairStart(NewSizes, pair) <= output /\ output <= output_end)'
    BY <2>3, <2>6, <2>7
  <2>10. (read + loaded = NewBefore(pair) + (output - PairStart(NewSizes, pair)))'
    BY <2>3, <2>8
  <2>11. FillInv'
    BY <1>3, <1>6, <2>1, <2>9, <2>10 DEF FillInv
  <2> QED
    BY <1>5, <2>1, <2>2, <2>11 DEF IndInv
<1>8. CASE ~ (output + n < output_end)
  <2> DEFINE next == pair + 2
  <2>1. /\ pair' = next
        /\ phase' = IF next = call.length THEN "done" ELSE "fill"
        /\ output' = IF next = call.length THEN output_end ELSE PairStart(NewSizes, next)
    BY <1>8 DEF Filled, Advance
  <2>2. output + n = output_end
    BY <1>2, <1>3, <1>8
  <2>3. NewBefore(next) = NewBefore(pair) + PairSize(NewSizes, pair) /\ PairSize(NewSizes, pair) \in Nat
    BY <1>1 DEF PairPlaced
  <2>4. output_end = start + PairSize(NewSizes, pair)
    BY <1>1 DEF FillKnown
  <2>5. done = NewBefore(next)
    <3>1. done = NewBefore(pair) + (output_end - start)
      <4>1. done \in Int /\ start \in Int
        BY <1>2, <1>3
      <4> HIDE DEF done, start
      <4> QED
        BY <1>2, <1>4, <2>2, <4>1
    <3>2. output_end - start = PairSize(NewSizes, pair)
      <4>1. start \in Int
        BY <1>2
      <4> HIDE DEF start
      <4> QED
        BY <2>3, <2>4, <4>1
    <3> QED
      BY <2>3, <3>1, <3>2
  <2>6. next \in 0 .. call.length /\ next % 2 = 0
    BY <1>2
  <2> HIDE DEF next, done
  <2>7. CASE next = call.length
    <3>1. phase' = "done" /\ output' = output_end /\ pair' = call.length
      BY <2>1, <2>7
    <3>2. TypeInv'
      BY <1>1, <1>2, <1>3, <1>5, <2>6, <2>7, <3>1 DEF TypeInv
    <3>3. done = cardinality
      BY <1>1, <2>5, <2>7, NewEnds
    <3>4. (read + loaded = cardinality)'
      BY <1>5, <3>3 DEF done
    <3>5. FillInv'
      BY <1>3, <1>6, <3>1, <3>4 DEF FillInv
    <3> QED
      BY <1>5, <3>1, <3>2, <3>5 DEF IndInv
  <2>8. CASE next # call.length
    <3>1. phase' = "fill" /\ output' = PairStart(NewSizes, next) /\ pair' = next
      BY <2>1, <2>8
    <3>2. next \in 0 .. (call.length - 2)
      <4>1. call.length % 2 = 0
        BY <1>1 DEF CallInv
      <4> QED
        BY <1>2, <2>6, <2>8, <4>1
    <3>3. PairPlaced(next)
      BY <1>1, <3>2, PairsPlaced
    <3>4. PairStart(NewSizes, next) \in Int /\ PairSize(NewSizes, next) \in Nat /\ NewBefore(next) \in Nat
      BY <3>3 DEF PairPlaced
    <3>5. TypeInv'
      BY <1>1, <1>2, <1>3, <1>5, <2>6, <3>1, <3>2, <3>4 DEF TypeInv
    <3>6. /\ (PairStart(NewSizes, pair))' = PairStart(NewSizes, next)
          /\ (output_end)' = PairStart(NewSizes, next) + PairSize(NewSizes, next)
          /\ (NewBefore(pair))' = NewBefore(next)
      BY <1>3, <1>5, <3>1 DEF PairStart, PairSize, output_end, NewBefore, elements_per_segment
    <3>7. (PairStart(NewSizes, pair) <= output /\ output <= output_end)'
      BY <3>1, <3>4, <3>6
    <3>8. NewBefore(next) = NewBefore(next) + (PairStart(NewSizes, next) - PairStart(NewSizes, next))
      BY <3>4
    <3>9. (read + loaded = NewBefore(pair) + (output - PairStart(NewSizes, pair)))'
      BY <2>5, <3>1, <3>6, <3>8 DEF done
    <3>10. FillInv'
      BY <1>3, <1>6, <3>1, <3>7, <3>9 DEF FillInv
    <3> QED
      BY <1>5, <3>1, <3>5, <3>10 DEF IndInv
  <2> QED
    BY <2>7, <2>8
<1> QED
  BY <1>7, <1>8

(* Filling a pair from the chunks is such a step. *)
LEMMA FillFromChunkStep ==
    ASSUME SpreadInPlaceAssumption, IndInv, FillFromChunk
    PROVE  IndInv'
<1> DEFINE n == IF loaded < call.batch THEN 1 ELSE elements2copy
<1>1. /\ phase = "fill" /\ output < output_end /\ read < Input /\ Advance(n)
      /\ call' = call /\ sizes' = sizes /\ left' = left /\ chunk2' = chunk2 /\ chunk1' = chunk1
      /\ loaded' = loaded
  BY DEF FillFromChunk
<1>2. read' = read + n
  BY DEF FillFromChunk
<1>3. FillKnown
  BY <1>1, FillIsKnown
<1>4. /\ output \in Int /\ output_end \in Int /\ read \in Nat /\ loaded \in Nat /\ Input \in Nat
      /\ chunk1 \in Nat /\ chunk2 \in Nat /\ loaded <= call.batch
  BY <1>3 DEF FillKnown
<1>5. n \in Nat /\ output + n <= output_end /\ read + n <= Input
  <2>1. CASE loaded < call.batch
    BY <1>1, <1>4, <2>1
  <2>2. CASE ~ (loaded < call.batch)
    <3> DEFINE a == output_end - output
               b == (IF read < chunk1 THEN chunk1 ELSE Input) - read
    <3>1. Input = chunk1 + chunk2
      BY DEF Input
    <3>2. a \in Nat /\ b \in Nat /\ output + a = output_end /\ read + b <= Input
      BY <1>1, <1>4, <3>1
    <3>3. n = Min({a, b})
      BY <2>2 DEF elements2copy
    <3> HIDE DEF a, b, n
    <3>4. n = IF a <= b THEN a ELSE b
      BY <3>2, <3>3, MinOfTwo
    <3> QED
      BY <1>4, <3>2, <3>4
  <2> QED
    BY <2>1, <2>2
<1> HIDE DEF n
<1>6. read' \in Nat /\ loaded' \in Nat /\ read' <= Input /\ loaded' <= call.batch
  BY <1>1, <1>2, <1>4, <1>5
<1>7. read' + loaded' = read + loaded + n
  BY <1>1, <1>2, <1>4, <1>5
<1>8. Filled(n)
  BY <1>1, <1>5, <1>6, <1>7 DEF Filled
<1> QED
  BY <1>1, <1>5, <1>8, FilledStep

(* So is filling the pair where the batch goes. *)
LEMMA FillFromBatchStep ==
    ASSUME SpreadInPlaceAssumption, IndInv, FillFromBatch
    PROVE  IndInv'
<1>1. /\ phase = "fill" /\ output < output_end /\ loaded < call.batch /\ Advance(1)
      /\ call' = call /\ sizes' = sizes /\ left' = left /\ chunk2' = chunk2 /\ chunk1' = chunk1
      /\ read' = read
  BY DEF FillFromBatch
<1>2. loaded' = loaded + 1
  BY DEF FillFromBatch
<1>3. FillKnown
  BY <1>1, FillIsKnown
<1>4. /\ output \in Int /\ output_end \in Int /\ read \in Nat /\ loaded \in Nat
      /\ call.batch \in Nat /\ read <= Input
  BY <1>3 DEF FillKnown
<1>5. output + 1 <= output_end
  BY <1>1, <1>4
<1>6. read' \in Nat /\ loaded' \in Nat /\ read' <= Input /\ loaded' <= call.batch
  BY <1>1, <1>2, <1>4
<1>7. read' + loaded' = read + loaded + 1
  BY <1>1, <1>2, <1>4
<1>8. Filled(1)
  BY <1>1, <1>5, <1>6, <1>7 DEF Filled
<1> QED
  BY <1>1, <1>8, FilledStep

(* So is a pair for which nothing is left to write. *)
LEMMA SkipPairStep ==
    ASSUME SpreadInPlaceAssumption, IndInv, SkipPair
    PROVE  IndInv'
<1>1. /\ phase = "fill" /\ Advance(0)
      /\ call' = call /\ sizes' = sizes /\ left' = left /\ chunk2' = chunk2 /\ chunk1' = chunk1
      /\ read' = read /\ loaded' = loaded
  BY DEF SkipPair
<1>2. FillKnown
  BY <1>1, FillIsKnown
<1>3. /\ output \in Int /\ output_end \in Int /\ read \in Nat /\ loaded \in Nat
      /\ read <= Input /\ loaded <= call.batch /\ output <= output_end
  BY <1>2 DEF FillKnown
<1>4. output + 0 <= output_end
  BY <1>3
<1>5. read' + loaded' = read + loaded + 0
  BY <1>1, <1>3
<1>6. Filled(0)
  BY <1>1, <1>3, <1>4, <1>5 DEF Filled
<1> QED
  BY <1>1, <1>6, FilledStep

(* Every step preserves the invariant. *)
LEMMA NextIndInv ==
    ASSUME SpreadInPlaceAssumption, IndInv, [Next]_vars
    PROVE  IndInv'
<1>1. CASE CopyOut
  BY <1>1, CopyOutStep
<1>2. CASE MoveToEnd
  BY <1>2, MoveToEndStep
<1>3. CASE FillFromChunk
  BY <1>3, FillFromChunkStep
<1>4. CASE FillFromBatch
  BY <1>4, FillFromBatchStep
<1>5. CASE SkipPair
  BY <1>5, SkipPairStep
<1>6. CASE UNCHANGED vars
  BY ZenonT(60), <1>6 DEF vars, IndInv, CallInv, TypeInv, CompactInv, FillInv, cardinality, Inserted, elements_per_segment,
              NewSizes, PairSize, PairStart, input_chunk2_capacity, InsertedAfter, NewBefore, Input, output_end
<1> QED
  BY <1>1, <1>2, <1>3, <1>4, <1>5, <1>6 DEF Next, Done

-----------------------------------------------------------------------------
(* What is not written yet fits behind the output, and the unread elements of chunk 1 are *)
(* among it.                                                                              *)
LEMMA OutputBeforeUnread ==
    ASSUME SpreadInPlaceAssumption, IndInv, phase = "fill"
    PROVE  output <= Chunk1Start + read
<1> DEFINE start == PairStart(NewSizes, pair)
           z == call.length * SegmentCapacity
           c == cardinality
           w == NewBefore(pair)
<1>1. FillKnown /\ PairPlaced(pair) /\ CallInv /\ FillInv
  BY FillIsKnown DEF IndInv
<1>2. /\ output \in Int /\ read \in Nat /\ loaded \in Nat /\ chunk1 \in Nat /\ chunk2 \in Nat
      /\ call.batch \in Nat /\ loaded <= call.batch
      /\ start \in Int /\ w \in Nat
  BY <1>1 DEF FillKnown
<1>3. read + loaded = w + (output - start)
  BY <1>1 DEF FillKnown
<1>4. start + c - w <= z
  BY <1>1 DEF PairPlaced
<1>5. chunk1 + chunk2 + call.batch = c
  BY <1>1 DEF FillInv, Input
<1>6. z \in Int
  BY <1>1 DEF CallInv, SpreadInPlaceAssumption
<1>7. Chunk1Start = z - chunk1
  BY DEF Chunk1Start
<1>8. c \in Nat
  BY <1>1, CallShares DEF RightShares
<1> HIDE DEF start, z, c, w
<1> QED
  BY <1>2, <1>3, <1>4, <1>5, <1>6, <1>7, <1>8

(* The pairs filled before end where this one starts, or before. *)
LEMMA WrittenBeforeOutput ==
    ASSUME SpreadInPlaceAssumption, IndInv, phase = "fill", NEW x \in Written
    PROVE  x \in Int /\ x < output
<1>1. FillKnown /\ PairPlaced(pair) /\ CallInv
  BY FillIsKnown DEF IndInv
<1>2. /\ output \in Int /\ PairStart(NewSizes, pair) \in Int /\ PairStart(NewSizes, pair) <= output
      /\ call.length \in Nat \ {0} /\ pair \in 0 .. (call.length - 2)
  BY <1>1 DEF FillKnown
<1>3. pair * SegmentCapacity <= PairStart(NewSizes, pair) /\ SegmentCapacity \in Nat
  BY <1>1 DEF PairPlaced, SpreadInPlaceAssumption
<1>4. \/ x \in PairStart(NewSizes, pair) .. (output - 1)
      \/ \E p \in 0 .. (pair - 2) :
            x \in PairStart(NewSizes, p) .. (PairStart(NewSizes, p) + PairSize(NewSizes, p) - 1)
  BY DEF Written
<1>5. CASE x \in PairStart(NewSizes, pair) .. (output - 1)
  BY <1>2, <1>5
<1>6. ASSUME NEW p \in 0 .. (pair - 2),
             x \in PairStart(NewSizes, p) .. (PairStart(NewSizes, p) + PairSize(NewSizes, p) - 1)
      PROVE  x \in Int /\ x < output
  <2>1. p \in 0 .. (call.length - 2) /\ p + 2 <= pair
    BY <1>2
  <2>2. PairPlaced(p)
    BY <1>1, <2>1, PairsPlaced
  <2> DEFINE end == PairStart(NewSizes, p) + PairSize(NewSizes, p)
             y == (p + 2) * SegmentCapacity
             z == pair * SegmentCapacity
  <2>3. PairStart(NewSizes, p) \in Int /\ end \in Int /\ end <= y
    BY <2>2 DEF PairPlaced
  <2>4. y <= z /\ y \in Int /\ z \in Int
    BY <1>2, <1>3, <2>1, MulMono
  <2>5. x \in PairStart(NewSizes, p) .. (end - 1)
    BY <1>6, <2>2 DEF PairPlaced
  <2>6. z <= PairStart(NewSizes, pair)
    BY <1>3
  <2> HIDE DEF end, y, z
  <2> QED
    BY <1>2, <2>3, <2>4, <2>5, <2>6
<1> QED
  BY <1>4, <1>5, <1>6

(* A pair is moved over slots whose elements were copied out or moved. *)
LEMMA MovedApart ==
    ASSUME SpreadInPlaceAssumption, IndInv, phase = "compact", ~ CopiesOut
    PROVE  PairStart(sizes, pair) + left <= Chunk1Start - left - InsertedHere
<1> DEFINE z == call.length * SegmentCapacity
           C == SegmentCapacity
           q == PairStart(sizes, pair)
<1>1. PairKnown /\ CallInv /\ CompactInv /\ TypeInv
  BY PairIsKnown DEF IndInv
<1>2. /\ call.length \in Nat \ {0} /\ C \in Nat \ {0}
      /\ pair \in 0 .. (call.length - 2) /\ pair % 2 = 0 /\ call.length % 2 = 0
      /\ left \in Nat /\ left <= 2 * C
      /\ chunk1 \in Nat /\ chunk2 \in Nat
      /\ call.op \in {"spread", "merge"}
      /\ InsertedHere \in {0, 1} /\ InsertedAfter(pair) \in {0, 1} /\ InsertedAfter(pair - 2) \in {0, 1}
      /\ InsertedAfter(pair - 2) = InsertedAfter(pair) + InsertedHere
  BY <1>1 DEF PairKnown
<1>3. OldPlaced(pair)
  BY <1>1, <1>2, OldPairs
<1>4. /\ sizes[pair] \in 0 .. C /\ sizes[pair + 1] \in 0 .. C
      /\ PairSize(sizes, pair) = sizes[pair] + sizes[pair + 1]
      /\ q = (pair + 1) * C - sizes[pair]
  BY <1>3 DEF OldPlaced
<1>5. left <= sizes[pair] + sizes[pair + 1]
  BY <1>1, <1>4 DEF CompactInv
<1>6. Chunk1Start = z - chunk1
  BY DEF Chunk1Start
<1>7. z \in Int
  BY <1>2
<1>8. q \in Int /\ q + left <= (pair + 2) * C
  <2> DEFINE y == (pair + 1) * C
  <2>1. y \in Int /\ (pair + 2) * C = y + C
    BY <1>2
  <2>2. q = y - sizes[pair]
    BY <1>4
  <2> HIDE DEF y, q
  <2>3. sizes[pair] \in 0 .. C /\ sizes[pair + 1] \in 0 .. C
    BY <1>4
  <2>4. q \in Int /\ q + left <= y + C
    <3>1. left \in Nat /\ C \in Nat
      BY <1>2
    <3> HIDE DEF C
    <3> QED
      BY <1>5, <2>1, <2>2, <2>3, <3>1
  <2> QED
    BY <2>1, <2>4
<1>9. CASE call.op = "merge"
  <2>1. q + left + chunk2 + chunk1 <= z
    BY <1>1, <1>9 DEF CompactInv
  <2>2. InsertedHere = 0
    BY <1>1, <1>9 DEF PairKnown
  <2>3. chunk2 >= 2 * C
    <3>1. ~ (chunk2 < input_chunk2_capacity)
      BY <1>9 DEF CopiesOut
    <3>2. input_chunk2_capacity >= 2 * C /\ input_chunk2_capacity \in Nat
      BY <1>1, <1>9, BufferForPair
    <3> QED
      BY <1>2, <3>1, <3>2
  <2> HIDE DEF q, z
  <2>4. q + left <= z - chunk1 - left - 0
    <3>1. left \in Nat /\ left <= 2 * C /\ C \in Nat /\ chunk1 \in Nat /\ chunk2 \in Nat
      BY <1>2
    <3> QED
      BY <1>7, <1>8, <2>1, <2>3, <3>1
  <2> QED
    BY <1>6, <2>2, <2>4 DEF q
<1>10. CASE call.op = "spread"
  <2>1. ~ (pair >= call.length - 4)
    BY <1>10 DEF CopiesOut
  <2> DEFINE v == (call.length - 6 - pair) * C
             y == (pair + 2) * C
  <2>2. chunk1 <= v + InsertedAfter(pair)
    BY <1>1, <1>10, <2>1 DEF CompactInv
  <2>3. v \in Int /\ y \in Int /\ z = v + y + 4 * C
    <3>1. call.length \in Int /\ pair \in Int /\ C \in Int
      BY <1>2
    <3>2. v \in Int /\ y \in Int
      BY <3>1
    <3>3. \A l, p, k \in Int : l * k = (l - 6 - p) * k + (p + 2) * k + 4 * k
      OBVIOUS
    <3> QED
      BY <3>1, <3>2, <3>3
  <2>4. InsertedAfter(pair) + InsertedHere <= 1
    BY <1>2
  <2>5. q + left <= y
    BY <1>8
  <2> HIDE DEF v, y, z, q
  <2>6. q + left <= z - chunk1 - left - InsertedHere
    <3>1. /\ left \in Nat /\ left <= 2 * C /\ C \in Nat \ {0} /\ chunk1 \in Nat
          /\ InsertedHere \in Int /\ InsertedAfter(pair) \in Int /\ q \in Int
      BY <1>2, <1>8
    <3> QED
      BY <2>2, <2>3, <2>4, <2>5, <3>1
  <2> QED
    BY <1>6, <2>6 DEF q
<1> QED
  BY <1>2, <1>9, <1>10

(* The invariant is enough. *)
LEMMA IndInvSafe ==
    ASSUME SpreadInPlaceAssumption, IndInv
    PROVE  InPlaceSafe
<1>1. CallInv /\ TypeInv
  BY DEF IndInv
<1>2. /\ phase \in {"compact", "fill", "done"} /\ chunk2 <= input_chunk2_capacity
      /\ chunk1 \in Nat /\ chunk2 \in Nat /\ read \in Nat /\ loaded \in Nat
  BY <1>1 DEF TypeInv
<1>3. CASE phase = "compact"
  <2>1. \A i \in read .. (chunk1 - 1) : Chunk1Start + i \notin Written
    BY <1>3 DEF Written
  <2>2. ~ CopiesOut => PairStart(sizes, pair) + left <= Chunk1Start - left - IF InsertsHere THEN 1 ELSE 0
    BY <1>3, MovedApart DEF InsertedHere
  <2>3. UnreadInPlace
    BY <1>3, <2>1, <2>2 DEF UnreadInPlace
  <2> QED
    BY <1>2, <1>3, <2>3 DEF InPlaceSafe, AllAccounted
<1>4. CASE phase = "fill"
  <2>1. FillInv /\ FillKnown
    BY <1>4, FillIsKnown DEF IndInv
  <2>2. output <= Chunk1Start + read
    BY <1>4, OutputBeforeUnread
  <2>3. ASSUME NEW i \in read .. (chunk1 - 1), Chunk1Start + i \in Written PROVE FALSE
    <3>1. Chunk1Start + i < output
      BY <1>4, <2>3, WrittenBeforeOutput
    <3>2. i \in Int /\ read <= i /\ output \in Int
      BY <1>2, <2>1 DEF FillKnown
    <3>3. Chunk1Start \in Int
      BY <1>1, <1>2 DEF Chunk1Start, CallInv, SpreadInPlaceAssumption
    <3> QED
      BY <1>2, <2>2, <3>1, <3>2, <3>3
  <2>4. UnreadInPlace
    BY <1>4, <2>2, <2>3 DEF UnreadInPlace
  <2>5. Input + call.batch = cardinality
    BY <2>1 DEF FillInv
  <2> QED
    BY <1>2, <1>4, <2>4, <2>5 DEF InPlaceSafe, AllAccounted
<1>5. CASE phase = "done"
  <2>1. FillInv
    BY <1>5 DEF IndInv
  <2>2. Input + call.batch = cardinality /\ read <= Input /\ loaded <= call.batch /\ read + loaded = cardinality
    BY <1>5, <2>1 DEF FillInv
  <2>3. Input \in Nat /\ chunk1 <= Input
    BY <1>2 DEF Input
  <2>4. call.batch \in Nat
    BY <1>1 DEF CallInv
  <2>5. read + loaded = Input + call.batch
    BY <2>2
  <2>6. read = Input /\ loaded = call.batch
    BY <1>2, <2>2, <2>3, <2>4, <2>5
  <2>7. \A i \in read .. (chunk1 - 1) : Chunk1Start + i \notin Written
    BY <1>2, <2>3, <2>6
  <2>8. UnreadInPlace
    BY <1>5, <2>7 DEF UnreadInPlace
  <2> QED
    BY <1>2, <1>5, <2>2, <2>6, <2>8 DEF InPlaceSafe, AllAccounted
<1> QED
  BY <1>2, <1>3, <1>4, <1>5

(* For every capacity of the segments, every window and every batch: no element of the       *)
(* window is overwritten before it is read, the buffer of spread and load_merge_multi is     *)
(* large enough, and every element reaches the output.                                       *)
THEOREM InPlaceSafety ==
    ASSUME SpreadInPlaceAssumption
    PROVE  Spec => []InPlaceSafe
<1>1. Init => IndInv
  BY InitIndInv
<1>2. IndInv /\ [Next]_vars => IndInv'
  BY NextIndInv
<1>3. IndInv => InPlaceSafe
  BY IndInvSafe
<1> QED
  BY <1>1, <1>2, <1>3, PTL DEF Spec
================================================================================
