------------------------------ MODULE ScanProofs ------------------------------
(***************************************************************************)
(* The iterator and do_sum of int2 visit the elements in range, each once, *)
(* in order and all of them: for every capacity of the segments, every     *)
(* array at rest and every range, whatever the unused slots hold.          *)
(*                                                                         *)
(* The argument has three parts.  The search for both ends: what is before *)
(* the lower one is below the range, and of the elements from there on     *)
(* those before the upper one are in it.  The walk from run to run: the    *)
(* slots of a run are elements, and the next element after a run is the    *)
(* first one of the next even segment.  And the sums: those of the runs    *)
(* add up to that of the slots visited.                                    *)
(***************************************************************************)
EXTENDS Scan, FiniteSetTheorems, WellFoundedInduction, TLAPS

-----------------------------------------------------------------------------
(* Numbers *)

(* Every non-empty set of natural numbers has a least element. *)
LEMMA LeastNatural ==
    ASSUME NEW T \in SUBSET Nat, T # {}
    PROVE  \E m \in T : \A k \in T : m <= k
<1> DEFINE R == OpToRel(<, Nat)
<1>1. \A x, y \in Nat : y < x => <<y, x>> \in R
  BY DEF OpToRel
<1>2. IsWellFoundedOn(R, Nat)
  BY NatLessThanWellFounded
<1> HIDE DEF R
<1>3. PICK m \in T : \A k \in T : ~ (<<k, m>> \in R)
  BY <1>2, WFMin, Zenon
<1>4. \A k \in T : ~ (k < m)
  BY <1>1, <1>3
<1> QED
  BY <1>4

(* Every non-empty set of numbers up to a bound has a greatest element. *)
LEMMA GreatestUpTo ==
    ASSUME NEW n \in Int, NEW T \in SUBSET Int, \A k \in T : k <= n, T # {}
    PROVE  \E m \in T : \A k \in T : k <= m
<1> DEFINE U == {n - k : k \in T}
<1>0. \A k \in T : k \in Int /\ n - k \in Nat
  OBVIOUS
<1>1. U \in SUBSET Nat /\ U # {}
  BY <1>0
<1>2. PICK u \in U : \A k \in U : u <= k
  BY <1>1, LeastNatural
<1>3. PICK m \in T : u = n - m
  BY <1>2
<1>4. ASSUME NEW k \in T PROVE k <= m
  <2>1. n - m <= n - k
    BY <1>2, <1>3
  <2> QED
    BY <1>0, <2>1
<1> QED
  BY <1>4

(* Whole segments are in the order of their numbers. *)
LEMMA Multiples ==
    ASSUME NEW c \in Nat, NEW a \in Nat, NEW b \in Nat, a <= b
    PROVE  a * c \in Nat /\ b * c \in Nat /\ a * c <= b * c /\ (a + 1) * c = a * c + c
<1>1. PICK d \in Nat : b = a + d
  <2>1. b - a \in Nat /\ b = a + (b - a)
    OBVIOUS
  <2> QED
    BY <2>1
<1>2. (a + d) * c = a * c + d * c /\ d * c \in Nat /\ a * c \in Nat
  OBVIOUS
<1>3. (a + 1) * c = a * c + c
  OBVIOUS
<1> QED
  BY <1>1, <1>2, <1>3

-----------------------------------------------------------------------------
(* Slots and segments *)

(* A segment has an element, and its elements are inside it. *)
LEMMA SegmentSlots ==
    ASSUME SegmentCapacity \in Nat \ {0}, NEW st, IsArray(st), NEW s \in DOMAIN st.sizes
    PROVE  /\ s \in Nat /\ s < NumberSegments(st) /\ NumberSegments(st) \in Nat
           /\ s * SegmentCapacity \in Nat /\ (s + 1) * SegmentCapacity \in Nat
           /\ FirstSlot(st, s) \in Nat /\ EndSlot(st, s) \in Nat
           /\ s * SegmentCapacity <= FirstSlot(st, s)
           /\ FirstSlot(st, s) < EndSlot(st, s)
           /\ EndSlot(st, s) <= (s + 1) * SegmentCapacity
           /\ EndSlot(st, s) <= NumberSegments(st) * SegmentCapacity
           /\ NumberSegments(st) * SegmentCapacity \in Nat
           /\ EndSlot(st, s) - FirstSlot(st, s) = st.sizes[s]
<1> DEFINE n == NumberSegments(st)
           c == SegmentCapacity
<1>1. n \in Nat \ {0} /\ s \in 0 .. (n - 1) /\ st.sizes[s] \in 1 .. c
  BY DEF IsArray
<1> HIDE DEF n
<1>2. s \in Nat /\ s + 1 \in Nat /\ s < n /\ s + 1 <= n /\ s <= s + 1 /\ c \in Nat
  BY <1>1
<1>3. s * c \in Nat /\ (s + 1) * c = s * c + c /\ (s + 1) * c \in Nat
  BY <1>2, Multiples
<1>4. (s + 1) * c <= n * c /\ n * c \in Nat
  BY <1>1, <1>2, Multiples
<1> DEFINE p == s * c
           q == (s + 1) * c
<1>5. FirstSlot(st, s) = (IF s % 2 = 0 THEN q - st.sizes[s] ELSE p)
  BY DEF FirstSlot
<1>6. EndSlot(st, s) = (IF s % 2 = 0 THEN q ELSE p + st.sizes[s])
  BY DEF EndSlot
<1>7. p \in Nat /\ q = p + c /\ q <= n * c
  BY <1>3, <1>4
<1> HIDE DEF p, q
<1>8. /\ FirstSlot(st, s) \in Nat /\ EndSlot(st, s) \in Nat /\ p <= FirstSlot(st, s)
      /\ FirstSlot(st, s) < EndSlot(st, s) /\ EndSlot(st, s) <= q
      /\ EndSlot(st, s) - FirstSlot(st, s) = st.sizes[s]
  BY <1>1, <1>5, <1>6, <1>7
<1>9. EndSlot(st, s) <= n * c
  <2> DEFINE m == n * c
  <2>1. m \in Nat /\ q <= m /\ q \in Nat /\ EndSlot(st, s) \in Nat /\ EndSlot(st, s) <= q
    BY <1>4, <1>7, <1>8
  <2> HIDE DEF m
  <2>2. EndSlot(st, s) <= m
    BY <2>1
  <2> QED
    BY <2>2 DEF m
<1> QED
  BY <1>1, <1>2, <1>3, <1>4, <1>8, <1>9 DEF n, p, q

(* The elements of a segment come before those of the ones after it. *)
LEMMA SegmentsInOrder ==
    ASSUME SegmentCapacity \in Nat \ {0}, NEW st, IsArray(st),
           NEW s \in DOMAIN st.sizes, NEW t \in DOMAIN st.sizes, s < t
    PROVE  EndSlot(st, s) <= FirstSlot(st, t)
<1>1. s \in Nat /\ t \in Nat /\ s + 1 \in Nat /\ s + 1 <= t
  BY SegmentSlots
<1>2. (s + 1) * SegmentCapacity <= t * SegmentCapacity
  BY <1>1, Multiples
<1> DEFINE p == (s + 1) * SegmentCapacity
           q == t * SegmentCapacity
<1>3. p \in Nat /\ EndSlot(st, s) \in Nat /\ EndSlot(st, s) <= p
  BY SegmentSlots
<1>4. q \in Nat /\ FirstSlot(st, t) \in Nat /\ q <= FirstSlot(st, t)
  BY SegmentSlots
<1>5. p <= q
  BY <1>2
<1> HIDE DEF p, q
<1> QED
  BY <1>3, <1>4, <1>5

(* The slots of the elements of a segment. *)
LEMMA HeldIsOccupied ==
    ASSUME SegmentCapacity \in Nat \ {0}, NEW st, IsArray(st), NEW s \in DOMAIN st.sizes,
           NEW i \in Int, Holds(st, s, i)
    PROVE  i \in Occupied(st)
<1> DEFINE m == NumberSegments(st) * SegmentCapacity
<1>1. FirstSlot(st, s) \in Nat /\ EndSlot(st, s) \in Nat /\ EndSlot(st, s) <= m /\ m \in Nat
  BY SegmentSlots
<1>2. DOMAIN st.keys = -1 .. (m - 1)
  BY DEF IsArray
<1> HIDE DEF m
<1>3. i \in DOMAIN st.keys
  BY <1>1, <1>2 DEF Holds
<1> QED
  BY <1>3 DEF Occupied

(* What an occupied slot is. *)
LEMMA OccupiedSlot ==
    ASSUME SegmentCapacity \in Nat \ {0}, NEW st, IsArray(st), NEW i \in Occupied(st)
    PROVE  /\ i \in Nat /\ i < NumberSegments(st) * SegmentCapacity
           /\ st.keys[i] \in Int
           /\ \E s \in DOMAIN st.sizes : Holds(st, s, i)
<1>1. PICK s \in DOMAIN st.sizes : Holds(st, s, i)
  BY DEF Occupied
<1> DEFINE m == NumberSegments(st) * SegmentCapacity
<1>2. FirstSlot(st, s) \in Nat /\ EndSlot(st, s) \in Nat /\ EndSlot(st, s) <= m /\ m \in Nat
  BY SegmentSlots
<1>3. i \in DOMAIN st.keys /\ st.keys \in [-1 .. (m - 1) -> Int]
  BY DEF IsArray, Occupied
<1> HIDE DEF m
<1>4. i \in Nat /\ i < m
  BY <1>1, <1>2, <1>3 DEF Holds
<1> QED
  BY <1>1, <1>3, <1>4 DEF m

(* The first slot of a segment has an element. *)
LEMMA FirstIsOccupied ==
    ASSUME SegmentCapacity \in Nat \ {0}, NEW st, IsArray(st), NEW s \in DOMAIN st.sizes
    PROVE  FirstSlot(st, s) \in Occupied(st) /\ Holds(st, s, FirstSlot(st, s))
<1>1. FirstSlot(st, s) \in Nat /\ EndSlot(st, s) \in Nat /\ FirstSlot(st, s) < EndSlot(st, s)
  BY SegmentSlots
<1>2. Holds(st, s, FirstSlot(st, s))
  BY <1>1 DEF Holds
<1> QED
  BY <1>1, <1>2, HeldIsOccupied

(* A later slot is in the same segment or a later one. *)
LEMMA LaterSlot ==
    ASSUME SegmentCapacity \in Nat \ {0}, NEW st, IsArray(st),
           NEW s \in DOMAIN st.sizes, NEW t \in DOMAIN st.sizes, NEW i \in Int, NEW j \in Int,
           Holds(st, s, i), Holds(st, t, j), i <= j
    PROVE  s <= t
<1>1. s \in Nat /\ t \in Nat /\ FirstSlot(st, s) \in Nat /\ EndSlot(st, t) \in Nat
  BY SegmentSlots
<1>2. t < s => EndSlot(st, t) <= FirstSlot(st, s)
  BY SegmentsInOrder
<1> QED
  BY <1>1, <1>2 DEF Holds

(* A slot at or after the first one of a segment is in it or in a later one. *)
LEMMA FromSegment ==
    ASSUME SegmentCapacity \in Nat \ {0}, NEW st, IsArray(st),
           NEW s \in DOMAIN st.sizes, NEW t \in DOMAIN st.sizes, NEW j \in Int, Holds(st, t, j)
    PROVE  /\ FirstSlot(st, s) <= j => s <= t
           /\ j < FirstSlot(st, s) => t < s
<1>1. s \in Nat /\ t \in Nat /\ FirstSlot(st, s) \in Nat /\ FirstSlot(st, t) \in Nat
  BY SegmentSlots
<1>2. FirstSlot(st, s) <= j => s <= t
  BY <1>1, FirstIsOccupied, LaterSlot
<1>3. s < t => FirstSlot(st, s) < FirstSlot(st, t)
  <2> SUFFICES ASSUME s < t PROVE FirstSlot(st, s) < FirstSlot(st, t)
    OBVIOUS
  <2>1. FirstSlot(st, s) < EndSlot(st, s) /\ EndSlot(st, s) \in Nat
    BY SegmentSlots
  <2>2. EndSlot(st, s) <= FirstSlot(st, t)
    BY SegmentsInOrder
  <2> QED
    BY <1>1, <2>1, <2>2
<1>4. FirstSlot(st, t) <= j
  BY DEF Holds
<1> QED
  BY <1>1, <1>2, <1>3, <1>4
-----------------------------------------------------------------------------
(* The search for both ends *)

(* The last of some segments. *)
LEMMA LastOfIs ==
    ASSUME NEW n \in Nat, NEW T \in SUBSET (0 .. (n - 1))
    PROVE  /\ T # {} => LastOf(T) \in T /\ \A t \in T : t <= LastOf(T)
           /\ T = {} => LastOf(T) = 0
<1> SUFFICES ASSUME T # {} PROVE LastOf(T) \in T /\ \A t \in T : t <= LastOf(T)
  BY DEF LastOf
<1>1. \E m \in T : \A k \in T : k <= m
  <2>1. T \in SUBSET Int /\ n \in Int /\ \A k \in T : k <= n
    OBVIOUS
  <2> QED
    BY <2>1, GreatestUpTo
<1> QED
  BY <1>1, Zenon DEF LastOf

(* The segments, and that there is a first one. *)
LEMMA Segments ==
    ASSUME SegmentCapacity \in Nat \ {0}, NEW st, IsArray(st)
    PROVE  /\ NumberSegments(st) \in Nat \ {0}
           /\ DOMAIN st.sizes = 0 .. (NumberSegments(st) - 1)
           /\ 0 \in DOMAIN st.sizes
<1> DEFINE n == NumberSegments(st)
<1>1. n \in Nat \ {0} /\ st.sizes \in [0 .. (n - 1) -> 1 .. SegmentCapacity]
  BY DEF IsArray
<1> HIDE DEF n
<1>2. DOMAIN st.sizes = 0 .. (n - 1) /\ 0 \in 0 .. (n - 1)
  BY <1>1
<1> QED
  BY <1>1, <1>2 DEF n

(* The keys of the elements are in the order of their slots. *)
LEMMA Sorted ==
    ASSUME NEW st, IsArray(st), NEW i \in Occupied(st), NEW j \in Occupied(st), i <= j
    PROVE  st.keys[i] <= st.keys[j]
BY DEF IsArray

(* What is before the segment that find_first gives is below the key. *)
LEMMA FindFirstIs ==
    ASSUME SegmentCapacity \in Nat \ {0}, NEW st, IsArray(st), NEW key \in Int
    PROVE  /\ find_first(st, key) \in DOMAIN st.sizes
           /\ \A i \in Occupied(st) : i < FirstSlot(st, find_first(st, key)) => st.keys[i] < key
           /\ \A s \in DOMAIN st.sizes :
                 st.keys[FirstSlot(st, s)] < key => s <= find_first(st, key)
           /\ find_first(st, key) # 0 => st.keys[FirstSlot(st, find_first(st, key))] < key
<1> DEFINE T == {s \in DOMAIN st.sizes : st.keys[FirstSlot(st, s)] < key}
           f == find_first(st, key)
           n == NumberSegments(st)
<1>1. n \in Nat /\ DOMAIN st.sizes = 0 .. (n - 1) /\ 0 \in DOMAIN st.sizes
  BY Segments
<1>2. T \in SUBSET (0 .. (n - 1)) /\ f = LastOf(T)
  BY <1>1 DEF find_first
<1> HIDE DEF n, f
<1>3. /\ T # {} => f \in T /\ \A t \in T : t <= f
      /\ T = {} => f = 0
  BY <1>1, <1>2, LastOfIs
<1>4. f \in DOMAIN st.sizes
  BY <1>1, <1>3
<1>5. \A s \in DOMAIN st.sizes : st.keys[FirstSlot(st, s)] < key => s <= f
  BY <1>3
<1>6. f # 0 => st.keys[FirstSlot(st, f)] < key
  BY <1>3
<1>7. ASSUME NEW i \in Occupied(st), i < FirstSlot(st, f) PROVE st.keys[i] < key
  <2>1. PICK s \in DOMAIN st.sizes : Holds(st, s, i)
    BY OccupiedSlot
  <2>2. i \in Nat /\ st.keys[i] \in Int
    BY OccupiedSlot
  <2>3. s < f /\ s \in Nat /\ f \in Nat
    BY <1>4, <1>7, <2>1, <2>2, FromSegment, SegmentSlots
  <2>4. st.keys[FirstSlot(st, f)] < key
    BY <1>6, <2>3
  <2>5. FirstSlot(st, f) \in Occupied(st) /\ FirstSlot(st, f) \in Nat
    BY <1>4, FirstIsOccupied, SegmentSlots
  <2>6. st.keys[i] <= st.keys[FirstSlot(st, f)] /\ st.keys[FirstSlot(st, f)] \in Int
    BY <1>7, <2>2, <2>5, Sorted, OccupiedSlot
  <2> QED
    BY <2>2, <2>4, <2>6
<1> QED
  BY <1>4, <1>5, <1>6, <1>7 DEF f

(* From the segment after the one that find_last gives all is above the key. *)
LEMMA FindLastIs ==
    ASSUME SegmentCapacity \in Nat \ {0}, NEW st, IsArray(st), NEW key \in Int
    PROVE  /\ find_last(st, key) \in DOMAIN st.sizes
           /\ \A s \in DOMAIN st.sizes :
                 find_last(st, key) < s =>
                     /\ st.keys[FirstSlot(st, s)] > key
                     /\ \A i \in Occupied(st) : FirstSlot(st, s) <= i => st.keys[i] > key
           /\ \A s \in DOMAIN st.sizes :
                 st.keys[FirstSlot(st, s)] <= key =>
                     s <= find_last(st, key) /\ st.keys[FirstSlot(st, find_last(st, key))] <= key
<1> DEFINE T == {s \in DOMAIN st.sizes : st.keys[FirstSlot(st, s)] <= key}
           f == find_last(st, key)
           n == NumberSegments(st)
<1>1. n \in Nat /\ DOMAIN st.sizes = 0 .. (n - 1) /\ 0 \in DOMAIN st.sizes
  BY Segments
<1>2. T \in SUBSET (0 .. (n - 1)) /\ f = LastOf(T)
  BY <1>1 DEF find_last
<1> HIDE DEF n, f
<1>3. /\ T # {} => f \in T /\ \A t \in T : t <= f
      /\ T = {} => f = 0
  BY <1>1, <1>2, LastOfIs
<1>4. f \in DOMAIN st.sizes
  BY <1>1, <1>3
<1>5. ASSUME NEW s \in DOMAIN st.sizes, st.keys[FirstSlot(st, s)] <= key
      PROVE  s <= f /\ st.keys[FirstSlot(st, f)] <= key
  BY <1>3, <1>5
<1>6. ASSUME NEW s \in DOMAIN st.sizes, f < s
      PROVE  /\ st.keys[FirstSlot(st, s)] > key
             /\ \A i \in Occupied(st) : FirstSlot(st, s) <= i => st.keys[i] > key
  <2>1. FirstSlot(st, s) \in Occupied(st) /\ FirstSlot(st, s) \in Nat
    BY FirstIsOccupied, SegmentSlots
  <2>2. st.keys[FirstSlot(st, s)] \in Int
    BY <2>1, OccupiedSlot
  <2>3. s \in Nat /\ f \in Nat
    BY <1>4, SegmentSlots
  <2>4. ~ (st.keys[FirstSlot(st, s)] <= key)
    BY <1>5, <1>6, <2>3
  <2>5. ASSUME NEW i \in Occupied(st), FirstSlot(st, s) <= i PROVE st.keys[i] > key
    <3>1. st.keys[FirstSlot(st, s)] <= st.keys[i] /\ st.keys[i] \in Int
      BY <2>1, <2>5, Sorted, OccupiedSlot
    <3> QED
      BY <2>2, <2>4, <3>1
  <2> QED
    BY <2>2, <2>4, <2>5
<1> QED
  BY <1>4, <1>5, <1>6 DEF f

(* Where the searches cross, no element is in range. *)
LEMMA CrossedIsEmpty ==
    ASSUME SegmentCapacity \in Nat \ {0}, NEW st, IsArray(st), NEW low \in Int, NEW high \in Int,
           find_first(st, low) > find_last(st, high),
           NEW i \in Occupied(st), low <= st.keys[i], st.keys[i] <= high
    PROVE  FALSE
<1> DEFINE s == find_first(st, low)
<1>1. s \in DOMAIN st.sizes /\ find_last(st, high) \in DOMAIN st.sizes
  BY FindFirstIs, FindLastIs
<1>2. i \in Nat /\ st.keys[i] \in Int
  BY OccupiedSlot
<1>3. FirstSlot(st, s) \in Nat /\ s \in Nat /\ find_last(st, high) \in Nat
  BY <1>1, SegmentSlots
<1>4. CASE i < FirstSlot(st, s)
  <2>1. st.keys[i] < low
    BY <1>4, FindFirstIs
  <2> QED
    BY <1>2, <2>1
<1>5. CASE FirstSlot(st, s) <= i
  <2>1. st.keys[i] > high
    BY <1>1, <1>3, <1>5, FindLastIs
  <2> QED
    BY <1>2, <2>1
<1> QED
  BY <1>2, <1>3, <1>4, <1>5

(* The search from find_first on gives the first element that is not below the key. *)
LEMMA LowerBoundIs ==
    ASSUME SegmentCapacity \in Nat \ {0}, NEW st, IsArray(st), NEW key \in Int
    PROVE  LET low == LowerBound(st, key)
           IN  \/ ~ low.found /\ \A i \in Occupied(st) : st.keys[i] < key
               \/ /\ low.found /\ low.segment \in DOMAIN st.sizes
                  /\ low.offset \in Occupied(st) /\ Holds(st, low.segment, low.offset)
                  /\ key <= st.keys[low.offset]
                  /\ \A j \in Occupied(st) : j < low.offset => st.keys[j] < key
<1> DEFINE f == find_first(st, key)
           In(s) == {i \in FirstSlot(st, s) .. (EndSlot(st, s) - 1) : st.keys[i] >= key}
           T == {s \in DOMAIN st.sizes : s >= f /\ In(s) # {}}
           s == CHOOSE c \in T : \A d \in T : c <= d
           first == CHOOSE i \in In(s) : \A j \in In(s) : i <= j
           low == LowerBound(st, key)
<1>1. low = IF T = {} THEN NotFound ELSE [found |-> TRUE, segment |-> s, offset |-> first]
  BY Zenon DEF LowerBound
<1> HIDE DEF low
<1>2. f \in DOMAIN st.sizes
  BY FindFirstIs
<1>3. \A t \in DOMAIN st.sizes : t \in Nat /\ FirstSlot(st, t) \in Nat /\ EndSlot(st, t) \in Nat
  BY SegmentSlots
\* An element whose key is not below is in a segment of T.
<1>4. ASSUME NEW i \in Occupied(st), NEW t \in DOMAIN st.sizes, Holds(st, t, i), ~ (st.keys[i] < key)
      PROVE  t \in T /\ i \in In(t)
  <2>1. i \in Nat /\ st.keys[i] \in Int
    BY OccupiedSlot
  <2>2. ~ (i < FirstSlot(st, f))
    BY <1>4, FindFirstIs
  <2>3. f <= t
    BY <1>2, <1>3, <1>4, <2>1, <2>2, FromSegment
  <2>4. i \in In(t)
    BY <1>3, <1>4, <2>1 DEF Holds
  <2> QED
    BY <1>2, <1>3, <2>3, <2>4
<1>5. CASE T = {}
  <2>1. ASSUME NEW i \in Occupied(st) PROVE st.keys[i] < key
    <3>1. PICK t \in DOMAIN st.sizes : Holds(st, t, i)
      BY OccupiedSlot
    <3> QED
      BY <1>4, <1>5, <3>1
  <2>2. ~ low.found
    BY <1>1, <1>5 DEF NotFound
  <2> QED
    BY <2>1, <2>2 DEF low
<1>6. CASE T # {}
  <2>1. T \in SUBSET Nat
    BY <1>3
  <2>2. \E c \in T : \A d \in T : c <= d
    BY <1>6, <2>1, LeastNatural
  <2>3. s \in T /\ \A d \in T : s <= d
    BY <2>2, Zenon
  <2> HIDE DEF s, T
  <2>4. s \in DOMAIN st.sizes /\ In(s) # {}
    BY <2>3 DEF T
  <2>5. In(s) \in SUBSET Nat
    BY <1>3, <2>4
  <2>6. \E c \in In(s) : \A d \in In(s) : c <= d
    BY <2>4, <2>5, LeastNatural
  <2>7. first \in In(s) /\ \A d \in In(s) : first <= d
    BY <2>6, Zenon
  <2> HIDE DEF first
  <2>8. first \in Nat /\ Holds(st, s, first) /\ key <= st.keys[first]
    <3>1. first \in FirstSlot(st, s) .. (EndSlot(st, s) - 1) /\ st.keys[first] >= key
      BY <2>7
    <3>2. first \in Nat /\ Holds(st, s, first)
      BY <1>3, <2>4, <3>1 DEF Holds
    <3>3. first \in Occupied(st)
      BY <2>4, <3>2, HeldIsOccupied
    <3>4. st.keys[first] \in Int
      BY <3>3, OccupiedSlot
    <3> QED
      BY <3>1, <3>2, <3>4
  <2>9. first \in Occupied(st)
    BY <2>4, <2>8, HeldIsOccupied
  <2>10. ASSUME NEW j \in Occupied(st), j < first PROVE st.keys[j] < key
    <3> SUFFICES ASSUME ~ (st.keys[j] < key) PROVE FALSE
      OBVIOUS
    <3>1. PICK t \in DOMAIN st.sizes : Holds(st, t, j)
      BY OccupiedSlot
    <3>2. j \in Nat
      BY OccupiedSlot
    <3>3. t \in T /\ j \in In(t)
      BY <1>4, <3>1 DEF T
    <3>4. s <= t /\ t <= s
      BY <2>3, <2>4, <2>8, <2>10, <3>1, <3>2, <3>3, LaterSlot
    <3>5. s = t
      BY <1>3, <2>4, <3>1, <3>4
    <3>6. first <= j
      BY <2>7, <3>3, <3>5
    <3> QED
      BY <2>8, <2>10, <3>2, <3>6
  <2>11. low.found /\ low.segment = s /\ low.offset = first
    BY <1>1, <1>6 DEF T
  <2> QED
    BY <2>4, <2>8, <2>9, <2>10, <2>11 DEF low
<1> QED
  BY <1>5, <1>6

(* The search back from find_last gives the last element that is not above the key, when   *)
(* the segment it stops at has one.  It does not get to the slot before the first element  *)
(* of an even segment: the first key of the segment of find_last is not above.             *)
LEMMA UpperBoundIs ==
    ASSUME SegmentCapacity \in Nat \ {0}, NEW st, IsArray(st), NEW key \in Int,
           NEW from \in DOMAIN st.sizes, NEW i \in Occupied(st), Holds(st, from, i), st.keys[i] <= key
    PROVE  LET high == UpperBound(st, key, from)
           IN  /\ high \in Occupied(st) /\ i <= high
               /\ \A j \in Occupied(st) : j <= high <=> st.keys[j] <= key
<1> DEFINE f == find_last(st, key)
           Lowest(s) == IF s % 2 = 0 THEN FirstSlot(st, s) - 1 ELSE FirstSlot(st, s)
           In(s) == {j \in Lowest(s) .. (EndSlot(st, s) - 1) : st.keys[j] <= key}
           T == {s \in from .. f : In(s) # {}}
           s == CHOOSE c \in T : \A d \in T : c >= d
           last == CHOOSE j \in In(s) : \A k \in In(s) : j >= k
           high == UpperBound(st, key, from)
<1>1. high = IF T = {} THEN Lowest(from) - 1 ELSE last
  BY Zenon DEF UpperBound
<1> HIDE DEF high
<1>2. \A t \in DOMAIN st.sizes :
          t \in Nat /\ FirstSlot(st, t) \in Nat /\ EndSlot(st, t) \in Nat /\ FirstSlot(st, t) < EndSlot(st, t)
  BY SegmentSlots
<1>3. i \in Nat /\ st.keys[i] \in Int
  BY OccupiedSlot
<1>4. st.keys[FirstSlot(st, from)] <= key
  <2>1. FirstSlot(st, from) \in Occupied(st) /\ FirstSlot(st, from) <= i
    BY FirstIsOccupied DEF Holds
  <2>2. st.keys[FirstSlot(st, from)] <= st.keys[i] /\ st.keys[FirstSlot(st, from)] \in Int
    BY <2>1, Sorted, OccupiedSlot
  <2> QED
    BY <1>3, <2>2
<1>5. from <= f /\ st.keys[FirstSlot(st, f)] <= key /\ f \in DOMAIN st.sizes
  BY <1>4, FindLastIs
<1>6. FirstSlot(st, f) \in In(f)
  BY <1>2, <1>5
<1>7. f \in T
  BY <1>2, <1>5, <1>6
<1>8. s = f
  <2>1. \A d \in T : d \in Int /\ d <= f /\ f >= d
    BY <1>2, <1>5
  <2> HIDE DEF T
  <2>2. \E c \in T : \A d \in T : c >= d
    BY <1>7, <2>1
  <2>3. s \in T /\ \A d \in T : s >= d
    BY <2>2, Zenon
  <2> HIDE DEF s
  <2> QED
    BY <1>2, <1>5, <1>7, <2>1, <2>3
<1>9. high = last
  BY <1>1, <1>7
<1> HIDE DEF s
<1>10. last \in In(f) /\ \A k \in In(f) : last >= k
  <2>1. \E m \in In(f) : \A k \in In(f) : k <= m
    <3>1. EndSlot(st, f) \in Int /\ In(f) \in SUBSET Int /\ \A k \in In(f) : k <= EndSlot(st, f)
      BY <1>2, <1>5
    <3>2. In(f) # {}
      BY <1>6
    <3> HIDE DEF In
    <3> QED
      BY <3>1, <3>2, GreatestUpTo
  <2>2. \A m, k \in In(f) : k <= m <=> m >= k
    BY <1>2, <1>5
  <2>3. \E m \in In(f) : \A k \in In(f) : m >= k
    BY <2>1, <2>2
  <2> HIDE DEF In
  <2> QED
    BY <1>8, <2>3, Zenon DEF last
<1> HIDE DEF last
<1>11. last \in Nat /\ Holds(st, f, last) /\ st.keys[last] <= key
  <2>1. FirstSlot(st, f) <= last
    BY <1>2, <1>5, <1>6, <1>10
  <2> QED
    BY <1>2, <1>5, <1>10, <2>1 DEF Holds
<1>12. last \in Occupied(st)
  BY <1>5, <1>11, HeldIsOccupied
<1>13. st.keys[last] \in Int
  BY <1>12, OccupiedSlot
<1>14. ASSUME NEW j \in Occupied(st) PROVE j <= last <=> st.keys[j] <= key
  <2>1. j \in Nat /\ st.keys[j] \in Int
    BY OccupiedSlot
  <2>2. CASE j <= last
    <3>1. st.keys[j] <= st.keys[last]
      BY <1>12, <2>2, Sorted
    <3> QED
      BY <1>11, <1>13, <2>1, <2>2, <3>1
  <2>3. CASE last < j
    <3>1. PICK t \in DOMAIN st.sizes : Holds(st, t, j)
      BY OccupiedSlot
    <3>2. f <= t
      BY <1>5, <1>11, <2>1, <2>3, <3>1, LaterSlot
    <3>3. CASE f = t
      <4>1. j \in Lowest(f) .. (EndSlot(st, f) - 1)
        BY <1>2, <1>5, <2>1, <3>1, <3>3 DEF Holds
      <4>2. j \notin In(f)
        BY <1>10, <1>11, <2>1, <2>3
      <4> QED
        BY <1>11, <2>1, <2>3, <4>1, <4>2
    <3>4. CASE f < t
      <4>1. FirstSlot(st, t) <= j
        BY <3>1 DEF Holds
      <4>2. st.keys[j] > key
        BY <3>4, <4>1, FindLastIs
      <4> QED
        BY <1>11, <2>1, <2>3, <4>2
    <3> QED
      BY <1>2, <1>5, <3>1, <3>2, <3>3, <3>4
  <2> QED
    BY <1>11, <2>1, <2>2, <2>3
<1>15. i <= last
  BY <1>14
<1> QED
  BY <1>9, <1>12, <1>14, <1>15 DEF high

-----------------------------------------------------------------------------
(* Runs *)

(* The segment of the next run, of an even segment the one after its neighbour. *)
After(s) == s + 1 + (IF s % 2 = 0 THEN 1 ELSE 0)

(* An even segment ends where its neighbour begins. *)
LEMMA EvenAndOdd ==
    ASSUME SegmentCapacity \in Nat \ {0}, NEW st, NEW s \in Nat, s % 2 = 0
    PROVE  EndSlot(st, s) = FirstSlot(st, s + 1)
<1>1. (s + 1) % 2 # 0
  OBVIOUS
<1> QED
  BY <1>1 DEF EndSlot, FirstSlot

(* The slots of a run are elements. *)
LEMMA RunSlots ==
    ASSUME SegmentCapacity \in Nat \ {0}, NEW st, IsArray(st), NEW s \in DOMAIN st.sizes
    PROVE  /\ RunEnd(st, s) \in Nat /\ FirstSlot(st, s) \in Nat /\ FirstSlot(st, s) < RunEnd(st, s)
           /\ RunEnd(st, s) <= NumberSegments(st) * SegmentCapacity
           /\ EndSlot(st, s) <= RunEnd(st, s)
           /\ \A i \in Int : FirstSlot(st, s) <= i /\ i < RunEnd(st, s) => i \in Occupied(st)
<1> DEFINE m == NumberSegments(st) * SegmentCapacity
<1>1. /\ s \in Nat /\ FirstSlot(st, s) \in Nat /\ EndSlot(st, s) \in Nat
      /\ FirstSlot(st, s) < EndSlot(st, s) /\ EndSlot(st, s) <= m /\ m \in Nat
  BY SegmentSlots
<1>2. \A i \in Int : FirstSlot(st, s) <= i /\ i < EndSlot(st, s) => i \in Occupied(st)
  BY HeldIsOccupied DEF Holds
<1>3. CASE s % 2 = 0 /\ s + 1 < NumberSegments(st)
  <2>1. s + 1 \in DOMAIN st.sizes
    BY <1>1, <1>3, Segments
  <2>2. /\ FirstSlot(st, s + 1) \in Nat /\ EndSlot(st, s + 1) \in Nat
        /\ FirstSlot(st, s + 1) < EndSlot(st, s + 1) /\ EndSlot(st, s + 1) <= m
    BY <2>1, SegmentSlots
  <2>3. EndSlot(st, s) = FirstSlot(st, s + 1)
    BY <1>1, <1>3, EvenAndOdd
  <2>4. RunEnd(st, s) = EndSlot(st, s + 1)
    BY <1>3 DEF RunEnd
  <2>5. \A i \in Int : FirstSlot(st, s + 1) <= i /\ i < EndSlot(st, s + 1) => i \in Occupied(st)
    BY <2>1, HeldIsOccupied DEF Holds
  <2> HIDE DEF m
  <2>6. \A i \in Int : FirstSlot(st, s) <= i /\ i < RunEnd(st, s) => i \in Occupied(st)
    BY <1>1, <1>2, <2>2, <2>3, <2>4, <2>5
  <2> QED
    BY <1>1, <2>2, <2>3, <2>4, <2>6 DEF m
<1>4. CASE ~ (s % 2 = 0 /\ s + 1 < NumberSegments(st))
  <2>1. RunEnd(st, s) = EndSlot(st, s)
    BY <1>4 DEF RunEnd
  <2> QED
    BY <1>1, <1>2, <2>1
<1> QED
  BY <1>3, <1>4

(* The next run begins with an even segment, not before the end of this one. *)
LEMMA NextRun ==
    ASSUME SegmentCapacity \in Nat \ {0}, NEW st, IsArray(st), NEW s \in DOMAIN st.sizes
    PROVE  /\ After(s) \in Nat /\ After(s) % 2 = 0 /\ s < After(s)
           /\ After(s) <= NumberSegments(st) + 1
           /\ After(s) < NumberSegments(st) =>
                 /\ After(s) \in DOMAIN st.sizes /\ RunEnd(st, s) <= FirstSlot(st, After(s))
                 /\ s % 2 = 0 => s + 1 < NumberSegments(st)
<1> DEFINE n == NumberSegments(st)
<1>1. n \in Nat /\ DOMAIN st.sizes = 0 .. (n - 1)
  BY Segments
<1>2. s \in 0 .. (n - 1)
  BY <1>1
<1> HIDE DEF n
<1>3. After(s) \in Nat /\ After(s) % 2 = 0 /\ s < After(s) /\ After(s) <= n + 1
  BY <1>1, <1>2 DEF After
<1>4. ASSUME After(s) < n
      PROVE  /\ After(s) \in DOMAIN st.sizes /\ RunEnd(st, s) <= FirstSlot(st, After(s))
             /\ s % 2 = 0 => s + 1 < n
  <2>1. After(s) \in DOMAIN st.sizes
    BY <1>1, <1>3, <1>4
  <2>2. s % 2 = 0 => s + 1 < n /\ s + 1 \in DOMAIN st.sizes /\ s + 1 < After(s)
    BY <1>1, <1>2, <1>4 DEF After
  <2>3. CASE s % 2 = 0
    <3>1. RunEnd(st, s) = EndSlot(st, s + 1)
      BY <2>2, <2>3 DEF RunEnd, n
    <3> QED
      BY <2>1, <2>2, <2>3, <3>1, SegmentsInOrder
  <2>4. CASE s % 2 # 0
    <3>1. RunEnd(st, s) = EndSlot(st, s)
      BY <2>4 DEF RunEnd
    <3> QED
      BY <1>3, <2>1, <2>4, <3>1, SegmentsInOrder
  <2> QED
    BY <2>1, <2>2, <2>3, <2>4
<1> QED
  BY <1>3, <1>4 DEF n

(* An element after a run is in the next run or a later one. *)
LEMMA AfterRun ==
    ASSUME SegmentCapacity \in Nat \ {0}, NEW st, IsArray(st), NEW s \in DOMAIN st.sizes,
           NEW i \in Occupied(st), RunEnd(st, s) <= i
    PROVE  After(s) < NumberSegments(st) /\ FirstSlot(st, After(s)) <= i
<1> DEFINE n == NumberSegments(st)
<1>1. n \in Nat /\ DOMAIN st.sizes = 0 .. (n - 1)
  BY Segments
<1>2. PICK t \in DOMAIN st.sizes : Holds(st, t, i)
  BY OccupiedSlot
<1>3. i \in Nat
  BY OccupiedSlot
<1>4. s \in Nat /\ t \in Nat /\ t < n /\ EndSlot(st, s) \in Nat /\ EndSlot(st, t) \in Nat
  BY SegmentSlots
\* i is past a segment that ends at or before the end of the run.
<1>5. ASSUME NEW u \in DOMAIN st.sizes, EndSlot(st, u) <= RunEnd(st, s) PROVE u < t
  <2>1. u \in Nat /\ EndSlot(st, u) \in Nat /\ FirstSlot(st, u) \in Nat /\ RunEnd(st, s) \in Nat
    BY SegmentSlots, RunSlots
  <2>2. ~ (i < EndSlot(st, u))
    BY <1>3, <1>5, <2>1
  <2>3. FirstSlot(st, u) < EndSlot(st, u) /\ FirstSlot(st, u) <= i
    BY <1>3, <2>1, <2>2, SegmentSlots
  <2>4. u <= t
    BY <1>2, <1>3, <2>3, FromSegment
  <2>5. u # t
    BY <1>2, <2>2 DEF Holds
  <2> QED
    BY <1>4, <2>1, <2>4, <2>5
<1>6. s < t
  BY <1>5, RunSlots
<1>7. s % 2 = 0 => s + 1 < t
  <2> SUFFICES ASSUME s % 2 = 0 PROVE s + 1 < t
    OBVIOUS
  <2>1. s + 1 < n /\ s + 1 \in DOMAIN st.sizes
    BY <1>1, <1>4, <1>6
  <2>2. RunEnd(st, s) = EndSlot(st, s + 1)
    BY <2>1 DEF RunEnd
  <2>3. EndSlot(st, s + 1) \in Nat
    BY <2>1, SegmentSlots
  <2> QED
    BY <1>5, <2>1, <2>2, <2>3
<1>8. After(s) <= t
  BY <1>4, <1>6, <1>7 DEF After
<1>9. After(s) \in Nat
  BY <1>4 DEF After
<1>10. After(s) < n /\ After(s) \in DOMAIN st.sizes
  BY <1>1, <1>4, <1>8, <1>9
<1>11. FirstSlot(st, After(s)) <= i
  <2>1. FirstSlot(st, After(s)) \in Nat
    BY <1>10, SegmentSlots
  <2>2. i < FirstSlot(st, After(s)) => t < After(s)
    BY <1>2, <1>3, <1>10, FromSegment
  <2> QED
    BY <1>3, <1>4, <1>8, <1>9, <2>1, <2>2
<1> QED
  BY <1>10, <1>11 DEF n

-----------------------------------------------------------------------------
(* Sums *)

(* The sums of the first numbers of d. *)
IsSums(g, n, d) ==
    /\ g \in [0 .. n -> Int] /\ g[0] = 0
    /\ \A i \in 1 .. n : g[i] = g[i - 1] + d[i]

(* Numbers have sums. *)
LEMMA SumsExist ==
    ASSUME NEW n \in Nat, NEW d \in [1 .. n -> Int]
    PROVE  \E g : IsSums(g, n, d)
<1> DEFINE T == {k \in Nat : k <= n /\ ~ \E g : IsSums(g, k, d)}
<1> SUFFICES ASSUME T # {} PROVE FALSE
  <2>1. n \in T \/ \E g : IsSums(g, n, d)
    OBVIOUS
  <2> QED
    BY <2>1
<1>1. PICK m \in T : \A k \in T : m <= k
  BY LeastNatural
<1>2. m # 0
  <2>1. IsSums([i \in 0 .. 0 |-> 0], 0, d)
    BY DEF IsSums
  <2> QED
    BY <2>1
<1>3. m \in Nat /\ m <= n /\ m - 1 \in Nat /\ m - 1 <= n /\ ~ (m <= m - 1)
  BY <1>2
<1>4. PICK g : IsSums(g, m - 1, d)
  BY <1>1, <1>3
<1> DEFINE h == [i \in 0 .. m |-> IF i = m THEN g[m - 1] + d[m] ELSE g[i]]
<1>5. d[m] \in Int /\ g[m - 1] \in Int /\ g \in [0 .. (m - 1) -> Int]
  BY <1>2, <1>3, <1>4 DEF IsSums
<1>6. h \in [0 .. m -> Int]
  BY <1>3, <1>5
<1>7. h[0] = 0
  BY <1>2, <1>3, <1>4 DEF IsSums
<1>8. ASSUME NEW i \in 1 .. m PROVE h[i] = h[i - 1] + d[i]
  <2>1. i - 1 \in 0 .. m /\ i - 1 # m /\ h[i - 1] = g[i - 1]
    BY <1>3
  <2>2. CASE i = m
    BY <1>3, <2>1, <2>2
  <2>3. CASE i # m
    <3>1. i \in 1 .. (m - 1) /\ h[i] = g[i]
      BY <1>3, <2>3
    <3> QED
      BY <1>4, <2>1, <3>1 DEF IsSums
  <2> QED
    BY <2>2, <2>3
<1> HIDE DEF h
<1>9. IsSums(h, m, d)
  BY <1>6, <1>7, <1>8 DEF IsSums
<1> QED
  BY <1>9

(* A function that begins with 0 and adds one number after the other gives the sums. *)
LEMMA SumsUnique ==
    ASSUME NEW n \in Nat, NEW d, NEW g, IsSums(g, n, d), NEW S, S[0] = 0,
           \A i \in 1 .. n : S[i] = S[i - 1] + d[i]
    PROVE  \A i \in 0 .. n : S[i] = g[i]
<1> DEFINE T == {i \in Nat : i <= n /\ S[i] # g[i]}
<1> SUFFICES ASSUME T # {} PROVE FALSE
  OBVIOUS
<1>1. PICK m \in T : \A k \in T : m <= k
  BY LeastNatural
<1>2. m # 0
  BY DEF IsSums
<1>3. m \in 1 .. n /\ m - 1 \in Nat /\ m - 1 <= n /\ ~ (m <= m - 1)
  BY <1>2
<1>4. S[m - 1] = g[m - 1]
  BY <1>1, <1>3
<1>5. S[m] = g[m]
  BY <1>3, <1>4 DEF IsSums
<1> QED
  BY <1>5

(* The keys of some slots, added up: VisitedKeys says it of those visited. *)
KeysAlong(v, keys) ==
    LET S[i \in 0 .. Len(v)] == IF i = 0 THEN 0 ELSE S[i - 1] + keys[v[i]]
    IN  S[Len(v)]

(* d has the keys of the n slots of v. *)
AreKeys(d, v, n, keys) ==
    v \in Seq(Int) /\ n \in Nat /\ n = Len(v) /\ \A i \in 1 .. n : d[i] = keys[v[i]]

(* What the recursion of KeysAlong gives. *)
LEMMA KeysAlongIs ==
    ASSUME NEW v, NEW n, NEW keys, NEW d, NEW g, AreKeys(d, v, n, keys), IsSums(g, n, d)
    PROVE  KeysAlong(v, keys) = g[n]
<1>1. v \in Seq(Int) /\ n \in Nat /\ n = Len(v) /\ \A i \in 1 .. n : d[i] = keys[v[i]]
  BY DEF AreKeys
<1> DEFINE Eq(F) == F = [i \in 0 .. n |-> IF i = 0 THEN 0 ELSE F[i - 1] + keys[v[i]]]
           S == CHOOSE F : Eq(F)
<1>3. Eq(g)
  <2>1. g \in [0 .. n -> Int] /\ g[0] = 0
    BY DEF IsSums
  <2>2. ASSUME NEW i \in 0 .. n, i # 0 PROVE g[i] = g[i - 1] + keys[v[i]]
    <3>1. i \in 1 .. n
      BY <1>1, <2>2
    <3>2. g[i] = g[i - 1] + d[i]
      BY <3>1 DEF IsSums
    <3> QED
      BY <1>1, <3>1, <3>2
  <2> QED
    BY <2>1, <2>2
<1>4. Eq(S)
  BY <1>3, Zenon
<1>5. KeysAlong(v, keys) = S[n]
  BY <1>1, Zenon DEF KeysAlong
<1> HIDE DEF S
<1>6. S[0] = 0 /\ \A i \in 1 .. n : S[i] = S[i - 1] + d[i]
  <2>1. S[0] = 0
    <3>1. 0 \in 0 .. n
      BY <1>1
    <3> QED
      BY <1>4, <3>1
  <2>2. ASSUME NEW i \in 1 .. n PROVE S[i] = S[i - 1] + d[i]
    <3>1. i \in 0 .. n /\ i # 0 /\ d[i] = keys[v[i]]
      BY <1>1
    <3> QED
      BY <1>4, <3>1
  <2> QED
    BY <2>1, <2>2
<1>7. S[n] = g[n]
  <2>1. n \in 0 .. n
    BY <1>1
  <2> QED
    BY <1>1, <1>6, <2>1, SumsUnique
<1> QED
  BY <1>5, <1>7

(* What the recursion of RunSum gives. *)
LEMMA RunSumIs ==
    ASSUME NEW from \in Int, NEW n \in Nat,
           \A i \in 1 .. n : storage.keys[from + i - 1] \in Int
    PROVE  \E g : /\ IsSums(g, n, [i \in 1 .. n |-> storage.keys[from + i - 1]])
                  /\ RunSum(from, from + n) = g[n]
<1> DEFINE d == [i \in 1 .. n |-> storage.keys[from + i - 1]]
           to == from + n
           Eq(F) == F = [i \in from .. to |-> IF i = from THEN 0 ELSE F[i - 1] + storage.keys[i - 1]]
           S == CHOOSE F : Eq(F)
<1>1. d \in [1 .. n -> Int]
  OBVIOUS
<1>2. PICK g : IsSums(g, n, d)
  <2> HIDE DEF d
  <2> QED
    BY <1>1, SumsExist
<1> DEFINE h == [i \in from .. to |-> g[i - from]]
<1>3. Eq(h)
  <2>1. g \in [0 .. n -> Int] /\ g[0] = 0
    BY <1>2 DEF IsSums
  <2>2. ASSUME NEW i \in from .. to, i # from PROVE h[i] = h[i - 1] + storage.keys[i - 1]
    <3>1. i - from \in 1 .. n /\ i - 1 \in from .. to /\ (i - 1) - from = (i - from) - 1
      BY <2>2
    <3>2. g[i - from] = g[(i - from) - 1] + d[i - from]
      BY <1>2, <3>1 DEF IsSums
    <3>3. d[i - from] = storage.keys[i - 1]
      <4>1. from + (i - from) - 1 = i - 1
        OBVIOUS
      <4> QED
        BY <3>1, <4>1
    <3>4. h[i] = g[i - from] /\ h[i - 1] = g[(i - from) - 1]
      BY <3>1
    <3> QED
      BY <3>2, <3>3, <3>4
  <2>3. \A i \in from .. to : i = from => h[i] = 0
    BY <2>1
  <2>4. h = [i \in from .. to |-> h[i]]
    OBVIOUS
  <2> HIDE DEF h
  <2> QED
    BY <2>2, <2>3, <2>4
<1> HIDE DEF h
<1>4. Eq(S)
  BY <1>3, Zenon
<1>5. RunSum(from, to) = S[to]
  BY Zenon DEF RunSum
<1> HIDE DEF S
<1> DEFINE R == [i \in 0 .. n |-> S[from + i]]
<1>6. R[0] = 0 /\ \A i \in 1 .. n : R[i] = R[i - 1] + d[i]
  <2>1. R[0] = 0
    <3>1. from \in from .. to /\ R[0] = S[from]
      OBVIOUS
    <3> QED
      BY <1>4, <3>1
  <2>2. ASSUME NEW i \in 1 .. n PROVE R[i] = R[i - 1] + d[i]
    <3>1. from + i \in from .. to /\ from + i # from /\ from + (i - 1) = (from + i) - 1
      OBVIOUS
    <3>2. S[from + i] = S[(from + i) - 1] + storage.keys[(from + i) - 1]
      BY <1>4, <3>1
    <3>3. R[i] = S[from + i] /\ R[i - 1] = S[(from + i) - 1]
      BY <3>1
    <3>4. d[i] = storage.keys[(from + i) - 1]
      OBVIOUS
    <3> QED
      BY <3>2, <3>3, <3>4
  <2> QED
    BY <2>1, <2>2
<1>7. R[n] = g[n]
  <2>1. n \in 0 .. n
    OBVIOUS
  <2> HIDE DEF R, d
  <2> QED
    BY <1>2, <1>6, <2>1, SumsUnique
<1>8. R[n] = S[to]
  OBVIOUS
<1> QED
  BY <1>2, <1>5, <1>7, <1>8

(* The slots of a run, as SumRun adds them to those visited. *)
RunFrom(from, n) == [i \in 1 .. n |-> from + i - 1]

(* dw has the l numbers of dv and the n of dr after them. *)
Joined(dw, l, dv, n, dr) ==
    /\ l \in Nat /\ n \in Nat
    /\ \A i \in 1 .. l : dw[i] = dv[i]
    /\ \A i \in 1 .. n : dw[l + i] = dr[i] /\ dr[i] \in Int

(* The sums of some numbers and of others after them. *)
LEMMA SumsSplit ==
    ASSUME NEW l, NEW n, NEW dv, NEW dr, NEW dw, NEW g, NEW r, NEW h, Joined(dw, l, dv, n, dr),
           IsSums(g, l, dv), IsSums(r, n, dr), IsSums(h, l + n, dw)
    PROVE  g[l] \in Int /\ r[n] \in Int /\ h[l + n] = g[l] + r[n]
<1>9. /\ l \in Nat /\ n \in Nat
      /\ \A i \in 1 .. l : dw[i] = dv[i]
      /\ \A i \in 1 .. n : dw[l + i] = dr[i] /\ dr[i] \in Int
  BY DEF Joined
<1>1. g \in [0 .. l -> Int] /\ r \in [0 .. n -> Int] /\ h \in [0 .. (l + n) -> Int]
  BY DEF IsSums
<1>2. h[0] = 0 /\ \A i \in 1 .. (l + n) : h[i] = h[i - 1] + dw[i]
  BY DEF IsSums
<1>3. h[l] = g[l]
  <2>1. \A i \in 1 .. l : h[i] = h[i - 1] + dv[i]
    BY <1>2, <1>9
  <2>2. l \in 0 .. l
    BY <1>9
  <2> QED
    BY <1>2, <1>9, <2>1, <2>2, SumsUnique
<1> DEFINE R == [i \in 0 .. n |-> h[l + i] - h[l]]
<1>4. g[l] \in Int /\ r[n] \in Int /\ h[l] \in Int /\ h[l + n] \in Int
  BY <1>1, <1>9
<1>5. R[0] = 0
  BY <1>4, <1>9
<1>6. ASSUME NEW i \in 1 .. n PROVE R[i] = R[i - 1] + dr[i]
  <2>1. l + i \in 1 .. (l + n) /\ l + (i - 1) = (l + i) - 1 /\ (l + i) - 1 \in 0 .. (l + n)
    BY <1>9
  <2>2. h[l + i] = h[(l + i) - 1] + dr[i]
    BY <1>2, <1>9, <2>1
  <2>3. R[i] = h[l + i] - h[l] /\ R[i - 1] = h[(l + i) - 1] - h[l]
    BY <1>9, <2>1
  <2>4. h[(l + i) - 1] \in Int /\ dr[i] \in Int
    BY <1>1, <1>9, <2>1
  <2> HIDE DEF R
  <2> QED
    BY <1>4, <2>2, <2>3, <2>4
<1>7. R[n] = r[n]
  <2>1. n \in 0 .. n
    BY <1>9
  <2> HIDE DEF R
  <2> QED
    BY <1>5, <1>6, <1>9, <2>1, SumsUnique
<1>8. R[n] = h[l + n] - h[l]
  BY <1>9
<1> HIDE DEF R
<1> QED
  BY <1>3, <1>4, <1>7, <1>8

(* A sequence and another one put after it. *)
LEMMA Concatenated ==
    ASSUME NEW s \in Seq(Int), NEW t \in Seq(Int)
    PROVE  /\ s \o t \in Seq(Int) /\ Len(s) \in Nat /\ Len(t) \in Nat /\ Len(s \o t) = Len(s) + Len(t)
           /\ \A i \in 1 .. Len(s) : (s \o t)[i] = s[i]
           /\ \A i \in 1 .. Len(t) : (s \o t)[Len(s) + i] = t[i]
OBVIOUS

(* The slots of a run are a sequence. *)
LEMMA RunFromIs ==
    ASSUME NEW X, NEW from \in Int, NEW n \in Nat, \A i \in 1 .. n : from + i - 1 \in X
    PROVE  /\ RunFrom(from, n) \in Seq(X) /\ Len(RunFrom(from, n)) = n
           /\ \A i \in 1 .. n : RunFrom(from, n)[i] = from + i - 1
<1>1. RunFrom(from, n) \in [1 .. n -> X]
  BY DEF RunFrom
<1>2. \A i \in 1 .. n : RunFrom(from, n)[i] = from + i - 1
  BY DEF RunFrom
<1> QED
  BY <1>1, <1>2

(* w has the slots of v and the n slots of a run after them. *)
Extended(w, v, from, n, keys) ==
    /\ v \in Seq(Int) /\ w \in Seq(Int) /\ from \in Int /\ n \in Nat
    /\ Len(v) \in Nat /\ Len(w) = Len(v) + n
    /\ \A i \in 1 .. Len(v) : w[i] = v[i] /\ keys[v[i]] \in Int
    /\ \A i \in 1 .. n : w[Len(v) + i] = from + i - 1 /\ keys[from + i - 1] \in Int

(* The sum over some slots and a run is the sum of the two. *)
LEMMA SumAppended ==
    ASSUME NEW v, NEW w, NEW from, NEW n, Extended(w, v, from, n, storage.keys)
    PROVE  /\ KeysAlong(v, storage.keys) \in Int /\ RunSum(from, from + n) \in Int
           /\ KeysAlong(w, storage.keys) = KeysAlong(v, storage.keys) + RunSum(from, from + n)
<1> DEFINE keys == storage.keys
           l == Len(v)
           dv == [i \in 1 .. l |-> keys[v[i]]]
           dr == [i \in 1 .. n |-> keys[from + i - 1]]
           dw == [i \in 1 .. (l + n) |-> keys[w[i]]]
<1>1. /\ v \in Seq(Int) /\ w \in Seq(Int) /\ from \in Int /\ n \in Nat /\ l \in Nat
      /\ l + n \in Nat /\ Len(v) = l /\ Len(w) = l + n
  BY DEF Extended
<1>2. /\ \A i \in 1 .. l : w[i] = v[i] /\ keys[v[i]] \in Int
      /\ \A i \in 1 .. n : w[l + i] = from + i - 1 /\ keys[from + i - 1] \in Int
  BY DEF Extended
<1> HIDE DEF keys, l
<1>3. dv \in [1 .. l -> Int] /\ dr \in [1 .. n -> Int]
  BY <1>2
<1>4. Joined(dw, l, dv, n, dr)
  <2>1. ASSUME NEW i \in 1 .. l PROVE dw[i] = dv[i]
    <3>1. i \in 1 .. (l + n)
      BY <1>1
    <3> QED
      BY <1>2, <3>1
  <2>2. ASSUME NEW i \in 1 .. n PROVE dw[l + i] = dr[i] /\ dr[i] \in Int
    <3>1. l + i \in 1 .. (l + n)
      BY <1>1
    <3> QED
      BY <1>2, <3>1
  <2> HIDE DEF dv, dr, dw
  <2> QED
    BY <1>1, <2>1, <2>2 DEF Joined
<1>5. dw \in [1 .. (l + n) -> Int]
  <2>1. ASSUME NEW i \in 1 .. (l + n) PROVE keys[w[i]] \in Int
    <3>1. CASE i <= l
      <4>1. i \in 1 .. l
        BY <1>1, <3>1
      <4> QED
        BY <1>2, <4>1
    <3>2. CASE l < i
      <4>1. i - l \in 1 .. n /\ l + (i - l) = i
        BY <1>1, <3>2
      <4> QED
        BY <1>2, <4>1
    <3> QED
      BY <1>1, <3>1, <3>2
  <2> QED
    BY <2>1
<1>6. AreKeys(dv, v, l, keys) /\ AreKeys(dw, w, l + n, keys)
  BY <1>1 DEF AreKeys
<1>7. \E f : IsSums(f, n, dr) /\ RunSum(from, from + n) = f[n]
  <2>1. \A i \in 1 .. n : storage.keys[from + i - 1] \in Int
    BY <1>2 DEF keys
  <2> QED
    BY <1>1, <2>1, RunSumIs DEF keys
<1> HIDE DEF dv, dr, dw
<1>8. PICK f : IsSums(f, n, dr) /\ RunSum(from, from + n) = f[n]
  BY <1>7
<1>9. PICK g : IsSums(g, l, dv)
  BY <1>1, <1>3, SumsExist
<1>10. PICK h : IsSums(h, l + n, dw)
  BY <1>1, <1>5, SumsExist
<1>11. KeysAlong(v, keys) = g[l] /\ KeysAlong(w, keys) = h[l + n]
  BY <1>6, <1>9, <1>10, KeysAlongIs, Zenon
<1>12. g[l] \in Int /\ f[n] \in Int /\ h[l + n] = g[l] + f[n]
  <2>1. IsSums(f, n, dr)
    BY <1>8
  <2> QED
    BY <1>4, <1>9, <1>10, <2>1, SumsSplit, SMTT(30)
<1> QED
  BY <1>8, <1>11, <1>12, Zenon DEF keys

-----------------------------------------------------------------------------
(* The invariant *)

(* A scan inside a run: the slots from .. to - 1 are elements, and the elements after     *)
(* them and before last are in the run of the segment next or in later ones.              *)
RunIs(st, from, to, last, next_run) ==
    /\ to <= last /\ last - 1 \in Occupied(st)
    /\ \A i \in Int : from <= i /\ i < to => i \in Occupied(st)
    /\ \A i \in Occupied(st) :
          to <= i /\ i < last => next_run < NumberSegments(st) /\ FirstSlot(st, next_run) <= i
    /\ next_run < NumberSegments(st) =>
          next_run \in Nat /\ next_run % 2 = 0 /\ to <= FirstSlot(st, next_run)

(* A scan has visited the slots of S before from, in order, and last is after those left. *)
WalkIs(st, S, slots, from, to, last, next_run) ==
    /\ \A i, j \in 1 .. Len(slots) : i < j => slots[i] < slots[j]
    /\ \A i \in Occupied(st) : (\E k \in 1 .. Len(slots) : slots[k] = i) <=> i \in S /\ i < from
    /\ \A i \in Occupied(st) : from <= i => (i < last <=> i \in S)
    /\ from < to => RunIs(st, from, to, last, next_run)
    /\ to <= from => last <= from

(* The segment of the run that is entered next: do_sum computes it when it leaves a run.  *)
Upcoming == IF phase = "sum" THEN NextEven ELSE segment

Walk == WalkIs(storage, InRange, visited, offset, stop, end, Upcoming)

(* The inductive invariant. *)
ScanInv ==
    /\ storage \in Storages /\ range \in Bounds \X Bounds
    /\ ScanTypeInv
    /\ phase = "start" => visited = <<>> /\ sum = [m_num_elements |-> 0, m_sum_keys |-> 0]
    /\ phase = "raised" => visited = <<>> /\ InRange = {}
    /\ phase \in {"iterate", "sum"} => Walk
    /\ phase = "sum" => sum = [m_num_elements |-> Len(visited), m_sum_keys |-> VisitedKeys]

(* A scan that enters a run at an element of it, to the end of the run or of the scan. *)
LEMMA EnterRun ==
    ASSUME SegmentCapacity \in Nat \ {0}, NEW st, IsArray(st), NEW s \in DOMAIN st.sizes,
           NEW from \in Int, FirstSlot(st, s) <= from,
           NEW last \in Int, last - 1 \in Occupied(st),
           NEW next_run \in Int,
           \/ next_run = After(s)
           \/ next_run >= NumberSegments(st) /\ After(s) >= NumberSegments(st)
    PROVE  RunIs(st, from, Min2(last, RunEnd(st, s)), last, next_run)
<1> DEFINE to == Min2(last, RunEnd(st, s))
           n == NumberSegments(st)
<1>1. n \in Nat /\ RunEnd(st, s) \in Nat /\ After(s) \in Nat
  BY Segments, RunSlots, NextRun
<1>2. to \in Int /\ to <= last /\ to <= RunEnd(st, s) /\ (to = last \/ to = RunEnd(st, s))
  BY <1>1 DEF Min2
<1> HIDE DEF to, n
<1>3. ASSUME NEW i \in Int, from <= i, i < to PROVE i \in Occupied(st)
  <2>1. FirstSlot(st, s) \in Nat /\ FirstSlot(st, s) <= i /\ i < RunEnd(st, s)
    BY <1>1, <1>2, <1>3, RunSlots
  <2> QED
    BY <2>1, RunSlots
<1>4. ASSUME NEW i \in Occupied(st), to <= i, i < last
      PROVE  next_run < n /\ FirstSlot(st, next_run) <= i
  <2>1. i \in Nat
    BY OccupiedSlot
  <2>2. RunEnd(st, s) <= i
    BY <1>1, <1>2, <1>4, <2>1
  <2>3. After(s) < n /\ FirstSlot(st, After(s)) <= i
    BY <2>2, AfterRun DEF n
  <2> QED
    BY <1>1, <2>3 DEF n
<1>5. ASSUME next_run < n
      PROVE  next_run \in Nat /\ next_run % 2 = 0 /\ to <= FirstSlot(st, next_run)
  <2>1. next_run = After(s)
    BY <1>1, <1>5 DEF n
  <2>2. After(s) % 2 = 0 /\ After(s) \in DOMAIN st.sizes /\ RunEnd(st, s) <= FirstSlot(st, After(s))
    BY <1>5, <2>1, NextRun DEF n
  <2>3. FirstSlot(st, After(s)) \in Nat
    BY <2>2, SegmentSlots
  <2> QED
    BY <1>1, <1>2, <2>1, <2>2, <2>3
<1> QED
  BY <1>2, <1>3, <1>4, <1>5 DEF RunIs, to, n

(* A scan that leaves a run for the next one. *)
LEMMA LeaveRun ==
    ASSUME SegmentCapacity \in Nat \ {0}, NEW st, IsArray(st),
           NEW from \in Int, NEW to \in Int, NEW last \in Int, NEW s \in Int,
           RunIs(st, from, to, last, s), from < to, s < NumberSegments(st),
           NEW next_run \in Int,
           \/ next_run = After(s)
           \/ next_run >= NumberSegments(st) /\ After(s) >= NumberSegments(st)
    PROVE  LET first == FirstSlot(st, s)
               to2 == Min2(last, RunEnd(st, s))
           IN  /\ s \in DOMAIN st.sizes /\ s % 2 = 0 /\ to <= first
               /\ first \in 0 .. (NumberSegments(st) * SegmentCapacity)
               /\ to2 \in 0 .. (NumberSegments(st) * SegmentCapacity)
               /\ RunIs(st, first, to2, last, next_run)
               /\ to2 <= first => last <= first
               /\ \A i \in Occupied(st) : to <= i /\ i < last => first <= i
<1> DEFINE first == FirstSlot(st, s)
           to2 == Min2(last, RunEnd(st, s))
<1>1. s \in DOMAIN st.sizes /\ s % 2 = 0 /\ to <= first
  BY Segments DEF RunIs
<1>2. /\ first \in Nat /\ RunEnd(st, s) \in Nat /\ first < RunEnd(st, s)
      /\ RunEnd(st, s) <= NumberSegments(st) * SegmentCapacity
      /\ NumberSegments(st) * SegmentCapacity \in Nat
  BY <1>1, RunSlots, SegmentSlots
<1>3. last - 1 \in Occupied(st) /\ \A i \in Occupied(st) : to <= i /\ i < last => first <= i
  BY DEF RunIs
<1>4. last \in Nat
  <2>1. last - 1 \in Nat
    BY <1>3, OccupiedSlot
  <2> QED
    BY <2>1
<1>5. to2 \in Int /\ to2 <= RunEnd(st, s) /\ 0 <= to2 /\ (to2 = last \/ to2 = RunEnd(st, s))
  BY <1>2, <1>4 DEF Min2
<1>6. RunIs(st, first, to2, last, next_run)
  BY <1>1, <1>2, <1>3, EnterRun
<1> HIDE DEF first, to2
<1>7. to2 <= first => last <= first
  BY <1>2, <1>4, <1>5
<1>8. /\ first \in 0 .. (NumberSegments(st) * SegmentCapacity)
      /\ to2 \in 0 .. (NumberSegments(st) * SegmentCapacity)
  BY <1>2, <1>5
<1> QED
  BY <1>1, <1>3, <1>6, <1>7, <1>8 DEF first, to2

(* After the last run no element of the scan is left. *)
LEMMA LastRun ==
    ASSUME SegmentCapacity \in Nat \ {0}, NEW st, IsArray(st),
           NEW from \in Int, NEW to \in Int, NEW last \in Int, NEW s \in Int,
           RunIs(st, from, to, last, s), s >= NumberSegments(st)
    PROVE  to = last
<1>1. last - 1 \in Occupied(st) /\ to <= last /\ NumberSegments(st) \in Nat
  BY Segments DEF RunIs
<1>2. to <= last - 1 => s < NumberSegments(st)
  BY <1>1 DEF RunIs
<1> QED
  BY <1>1, <1>2

(* A scan at the slot from moves n slots on, and then to the slot from2 if that is later. *)
Moves(st, v, from, to, last, n, from2, to2, s2) ==
    /\ to \in Int /\ last \in Int /\ from2 \in Int /\ to2 \in Int
    /\ \A k \in 1 .. Len(v) : v[k] \in Occupied(st)
    /\ 0 < n /\ from + n <= to /\ from + n <= from2
    /\ \A i \in Occupied(st) : from + n <= i /\ i < last => from2 <= i
    /\ from2 < to2 => RunIs(st, from2, to2, last, s2)
    /\ to2 <= from2 => last <= from2

(* Visiting some more slots of a run, whether the scan then stays in it or leaves it. *)
LEMMA WalkOn ==
    ASSUME SegmentCapacity \in Nat \ {0}, NEW st, IsArray(st), NEW S, S \in SUBSET Occupied(st),
           NEW v, NEW w, NEW from, NEW to, NEW last, NEW s, NEW n, NEW from2, NEW to2, NEW s2,
           WalkIs(st, S, v, from, to, last, s), Extended(w, v, from, n, st.keys),
           Moves(st, v, from, to, last, n, from2, to2, s2)
    PROVE  WalkIs(st, S, w, from2, to2, last, s2)
<1> DEFINE l == Len(v)
<1>1. /\ v \in Seq(Int) /\ w \in Seq(Int) /\ from \in Int /\ n \in Nat /\ l \in Nat
      /\ Len(v) = l /\ Len(w) = l + n
      /\ \A i \in 1 .. l : w[i] = v[i]
      /\ \A i \in 1 .. n : w[l + i] = from + i - 1
      /\ \A k \in 1 .. l : v[k] \in Occupied(st)
  <2>1. /\ v \in Seq(Int) /\ w \in Seq(Int) /\ from \in Int /\ n \in Nat /\ Len(v) \in Nat
        /\ Len(w) = Len(v) + n
        /\ \A i \in 1 .. Len(v) : w[i] = v[i]
        /\ \A i \in 1 .. n : w[Len(v) + i] = from + i - 1
    BY Zenon DEF Extended
  <2>2. \A k \in 1 .. Len(v) : v[k] \in Occupied(st)
    BY Zenon DEF Moves
  <2> QED
    BY <2>1, <2>2, Zenon
<1> HIDE DEF l
<1>11. /\ to \in Int /\ last \in Int /\ from2 \in Int /\ to2 \in Int
       /\ 0 < n /\ from + n <= to /\ from + n <= from2
       /\ \A i \in Occupied(st) : from + n <= i /\ i < last => from2 <= i
       /\ from2 < to2 => RunIs(st, from2, to2, last, s2)
       /\ to2 <= from2 => last <= from2
  BY Zenon DEF Moves
<1>2. /\ \A i, j \in 1 .. l : i < j => v[i] < v[j]
      /\ \A i \in Occupied(st) : (\E k \in 1 .. l : v[k] = i) <=> i \in S /\ i < from
      /\ \A i \in Occupied(st) : from <= i => (i < last <=> i \in S)
      /\ RunIs(st, from, to, last, s)
  <2>1. from < to
    BY <1>1, <1>11
  <2> QED
    BY <2>1, Zenon DEF WalkIs, l
<1>3. /\ to <= last
      /\ \A i \in Int : from <= i /\ i < to => i \in Occupied(st)
  BY <1>2 DEF RunIs
<1>4. \A i \in Occupied(st) : i \in Int
  BY OccupiedSlot
<1>5. \A k \in 1 .. l : v[k] \in Int /\ v[k] < from
  <2>1. \A k \in 1 .. l : v[k] \in Occupied(st)
    BY <1>1
  <2> QED
    BY <1>2, <1>4, <2>1
<1>6. \A k \in 1 .. (l + n) : (k <= l /\ k \in 1 .. l) \/ (l < k /\ k - l \in 1 .. n /\ l + (k - l) = k)
  BY <1>1
<1>7. \A k \in 1 .. (l + n) : /\ k <= l => w[k] = v[k]
                              /\ l < k => w[k] = from + (k - l) - 1
  <2>1. ASSUME NEW k \in 1 .. (l + n), l < k PROVE w[k] = from + (k - l) - 1
    <3>1. k - l \in 1 .. n /\ l + (k - l) = k
      BY <1>1, <2>1
    <3>2. w[l + (k - l)] = from + (k - l) - 1
      BY <1>1, <3>1
    <3> QED
      BY <3>1, <3>2
  <2> QED
    BY <1>1, <1>6, <2>1
<1>8. ASSUME NEW i \in 1 .. (l + n), NEW j \in 1 .. (l + n), i < j PROVE w[i] < w[j]
  <2>1. CASE j <= l
    <3>1. i \in 1 .. l /\ j \in 1 .. l /\ w[i] = v[i] /\ w[j] = v[j]
      BY <1>1, <1>7, <1>8, <2>1
    <3> QED
      BY <1>2, <1>8, <3>1
  <2>2. CASE l < j /\ i <= l
    <3>1. i \in 1 .. l /\ w[i] = v[i] /\ w[j] = from + (j - l) - 1
      BY <1>1, <1>7, <2>2
    <3>2. v[i] \in Int /\ v[i] < from
      BY <1>5, <3>1
    <3> QED
      BY <1>1, <2>2, <3>1, <3>2
  <2>3. CASE l < i
    <3>1. w[i] = from + (i - l) - 1 /\ w[j] = from + (j - l) - 1
      BY <1>1, <1>7, <1>8, <2>3
    <3> QED
      BY <1>1, <1>8, <3>1
  <2> QED
    BY <1>1, <2>1, <2>2, <2>3
<1>9. ASSUME NEW i \in Occupied(st)
      PROVE  (\E k \in 1 .. (l + n) : w[k] = i) <=> i \in S /\ i < from2
  <2>1. i \in Int
    BY <1>4
  <2>2. ASSUME NEW k \in 1 .. (l + n), w[k] = i PROVE i \in S /\ i < from2
    <3>1. CASE k <= l
      <4>1. k \in 1 .. l /\ v[k] = i
        BY <1>1, <1>11, <1>7, <2>2, <3>1
      <4>2. i \in S /\ i < from
        BY <1>2, <4>1
      <4> QED
        BY <1>1, <1>11, <2>1, <4>2
    <3>2. CASE l < k
      <4>1. i = from + (k - l) - 1
        BY <1>7, <2>2, <3>2
      <4>2. from <= i /\ i < from + n
        BY <1>1, <1>11, <3>2, <4>1
      <4>3. i < last
        BY <1>1, <1>11, <1>3, <2>1, <4>2
      <4> QED
        BY <1>1, <1>11, <1>2, <2>1, <4>2, <4>3
    <3> QED
      BY <1>1, <1>11, <3>1, <3>2
  <2>3. ASSUME i \in S, i < from2 PROVE \E k \in 1 .. (l + n) : w[k] = i
    <3>1. CASE i < from
      <4>1. PICK k \in 1 .. l : v[k] = i
        BY <1>2, <2>3, <3>1
      <4>2. k \in 1 .. (l + n) /\ w[k] = i
        BY <1>1, <1>11, <4>1
      <4> QED
        BY <4>2
    <3>2. CASE from <= i /\ i < from + n
      <4> DEFINE k == l + (i - from + 1)
      <4>1. k \in 1 .. (l + n) /\ l < k /\ from + (k - l) - 1 = i
        BY <1>1, <1>11, <2>1, <3>2
      <4>2. w[k] = i
        BY <1>7, <4>1
      <4> QED
        BY <4>1, <4>2
    <3>3. CASE from + n <= i
      <4>1. from <= i
        BY <1>1, <1>11, <2>1, <3>3
      <4>2. i < last
        BY <1>2, <1>11, <2>3, <4>1
      <4>3. from2 <= i
        BY <1>11, <3>3, <4>2
      <4> QED
        BY <1>11, <2>1, <2>3, <4>3
    <3> QED
      BY <1>1, <1>11, <2>1, <3>1, <3>2, <3>3
  <2> QED
    BY <2>2, <2>3
<1>10. ASSUME NEW i \in Occupied(st), from2 <= i PROVE i < last <=> i \in S
  <2>1. i \in Int /\ from <= i
    BY <1>1, <1>11, <1>4, <1>10
  <2> QED
    BY <1>2, <2>1
<1> QED
  <2>1. Len(w) = l + n
    BY <1>1
  <2>2. /\ \A i, j \in 1 .. (l + n) : i < j => w[i] < w[j]
        /\ \A i \in Occupied(st) : (\E k \in 1 .. (l + n) : w[k] = i) <=> i \in S /\ i < from2
        /\ \A i \in Occupied(st) : from2 <= i => (i < last <=> i \in S)
        /\ from2 < to2 => RunIs(st, from2, to2, last, s2)
        /\ to2 <= from2 => last <= from2
    BY <1>8, <1>9, <1>10, <1>11
  <2> DEFINE k == Len(w)
  <2>3. k = l + n
    BY <2>1
  <2>4. WalkIs(st, S, w, from2, to2, last, s2) <=>
           /\ \A i, j \in 1 .. k : i < j => w[i] < w[j]
           /\ \A i \in Occupied(st) : (\E m \in 1 .. k : w[m] = i) <=> i \in S /\ i < from2
           /\ \A i \in Occupied(st) : from2 <= i => (i < last <=> i \in S)
           /\ from2 < to2 => RunIs(st, from2, to2, last, s2)
           /\ to2 <= from2 => last <= from2
    BY Zenon DEF WalkIs
  <2> HIDE DEF k
  <2> QED
    BY <2>2, <2>3, <2>4

(* w is v and the n slots from on. *)
ExtendedBy(w, v, from, n) ==
    /\ v \in Seq(Int) /\ w \in Seq(Int) /\ from \in Int /\ n \in Nat /\ Len(v) \in Nat
    /\ Len(w) = Len(v) + n
    /\ \A i \in 1 .. Len(v) : w[i] = v[i]
    /\ \A i \in 1 .. n : w[Len(v) + i] = from + i - 1

(* The slots visited by then are elements. *)
LEMMA ExtendedSlots ==
    ASSUME SegmentCapacity \in Nat \ {0}, NEW st, IsArray(st),
           NEW v, NEW w, NEW from, NEW n, ExtendedBy(w, v, from, n), v \in Seq(Occupied(st)),
           \A i \in Int : from <= i /\ i < from + n => i \in Occupied(st)
    PROVE  w \in Seq(Occupied(st)) /\ Extended(w, v, from, n, st.keys)
<1> DEFINE l == Len(v)
           O == Occupied(st)
<1>0. /\ w \in Seq(Int) /\ from \in Int /\ n \in Nat /\ l \in Nat
      /\ v \in Seq(Int) /\ Len(v) = l /\ Len(w) = l + n
      /\ \A i \in 1 .. l : w[i] = v[i]
      /\ \A i \in 1 .. n : w[l + i] = from + i - 1
  BY Zenon DEF ExtendedBy
<1>1. l \in Nat /\ \A k \in 1 .. l : v[k] \in O
  <2>1. v \in Seq(O) /\ Len(v) = l
    OBVIOUS
  <2> HIDE DEF l, O
  <2> QED
    BY <2>1
<1>2. O \subseteq Int /\ \A i \in O : st.keys[i] \in Int
  BY OccupiedSlot
<1>4. \A i \in 1 .. n : from + i - 1 \in O
  <2> HIDE DEF l
  <2> QED
    BY <1>0
<1>5. /\ Len(w) = l + n
      /\ \A i \in 1 .. l : w[i] = v[i]
      /\ \A i \in 1 .. n : w[l + i] = from + i - 1
  BY <1>0, Zenon
<1> HIDE DEF l, O
<1>6. Extended(w, v, from, n, st.keys)
  <2>1. \A i \in 1 .. l : w[i] = v[i] /\ st.keys[v[i]] \in Int
    BY <1>1, <1>2, <1>5
  <2>2. \A i \in 1 .. n : w[l + i] = from + i - 1 /\ st.keys[from + i - 1] \in Int
    BY <1>2, <1>4, <1>5
  <2> QED
    BY <1>0, <2>1, <2>2, Zenon DEF Extended, l
<1>7. ASSUME NEW k \in 1 .. (l + n) PROVE w[k] \in O
  <2>1. CASE k <= l
    <3>1. k \in 1 .. l
      BY <1>0, <2>1
    <3> QED
      BY <1>1, <1>5, <3>1
  <2>2. CASE l < k
    <3>1. k - l \in 1 .. n /\ l + (k - l) = k
      BY <1>0, <2>2
    <3>2. w[l + (k - l)] = from + (k - l) - 1
      BY <1>5, <3>1
    <3> QED
      BY <1>4, <3>1, <3>2
  <2> QED
    BY <1>0, <2>1, <2>2
<1>8. w \in [1 .. (l + n) -> O]
  <2>1. w \in [1 .. Len(w) -> Int]
    BY <1>0
  <2> QED
    BY <1>5, <1>7, <2>1
<1>9. w \in Seq(O)
  BY <1>0, <1>8
<1> QED
  BY <1>6, <1>9 DEF O

-----------------------------------------------------------------------------
(* The beginning of a scan *)

(* The array and the range of the scan. *)
LEMMA TheArray ==
    ASSUME ScanAssumption, storage \in Storages, range \in Bounds \X Bounds
    PROVE  /\ SegmentCapacity \in Nat \ {0} /\ IsArray(storage)
           /\ range[1] \in Int /\ range[2] \in Int
           /\ InRange \in SUBSET Occupied(storage)
<1>1. range[1] \in Int /\ range[2] \in Int
  BY DEF ScanAssumption
<1>2. SegmentCapacity \in Nat \ {0} /\ IsArray(storage)
  BY DEF ScanAssumption
<1>3. InRange \in SUBSET Occupied(storage)
  BY DEF InRange
<1> QED
  BY <1>1, <1>2, <1>3

(* Where one of the ways out is taken, no element is in range. *)
LEMMA EmptyRange ==
    ASSUME ScanAssumption, storage \in Storages, range \in Bounds \X Bounds,
           \/ find_first(storage, range[1]) > find_last(storage, range[2])
           \/ range[2] < range[1]
           \/ ~ LowerBound(storage, range[1]).found
           \/ LowerBound(storage, range[1]).found
              /\ storage.keys[LowerBound(storage, range[1]).offset] > range[2]
           \/ LowerBound(storage, range[1]).found
              /\ UpperBound(storage, range[2], LowerBound(storage, range[1]).segment) <
                    LowerBound(storage, range[1]).offset
    PROVE  InRange = {}
<1> DEFINE low == LowerBound(storage, range[1])
           high == UpperBound(storage, range[2], low.segment)
<1> SUFFICES ASSUME NEW i \in InRange PROVE FALSE
  OBVIOUS
<1>1. /\ SegmentCapacity \in Nat \ {0} /\ IsArray(storage)
      /\ range[1] \in Int /\ range[2] \in Int
  BY TheArray
<1>2. i \in Occupied(storage) /\ range[1] <= storage.keys[i] /\ storage.keys[i] <= range[2]
  BY DEF InRange
<1>3. i \in Nat /\ storage.keys[i] \in Int
  BY <1>1, <1>2, OccupiedSlot
<1>4. ~ (find_first(storage, range[1]) > find_last(storage, range[2]))
  BY <1>1, <1>2, CrossedIsEmpty
<1>5. ~ (range[2] < range[1])
  BY <1>1, <1>2, <1>3
<1>6. \/ ~ low.found /\ \A j \in Occupied(storage) : storage.keys[j] < range[1]
      \/ /\ low.found /\ low.segment \in DOMAIN storage.sizes
         /\ low.offset \in Occupied(storage) /\ Holds(storage, low.segment, low.offset)
         /\ range[1] <= storage.keys[low.offset]
         /\ \A j \in Occupied(storage) : j < low.offset => storage.keys[j] < range[1]
  BY <1>1, LowerBoundIs
<1> HIDE DEF low
<1>7. /\ low.found /\ low.segment \in DOMAIN storage.sizes
      /\ low.offset \in Occupied(storage) /\ Holds(storage, low.segment, low.offset)
      /\ \A j \in Occupied(storage) : j < low.offset => storage.keys[j] < range[1]
  BY <1>1, <1>2, <1>3, <1>6
<1>8. low.offset \in Nat /\ storage.keys[low.offset] \in Int
  BY <1>1, <1>7, OccupiedSlot
<1>9. low.offset <= i
  BY <1>1, <1>2, <1>3, <1>7, <1>8
<1>10. storage.keys[low.offset] <= storage.keys[i]
  BY <1>1, <1>2, <1>7, <1>9, Sorted
<1>11. storage.keys[low.offset] <= range[2]
  BY <1>1, <1>2, <1>3, <1>8, <1>10
<1>12. high \in Occupied(storage) /\ low.offset <= high
  BY <1>1, <1>7, <1>11, UpperBoundIs
<1>13. high \in Nat
  BY <1>1, <1>12, OccupiedSlot
<1> HIDE DEF high
<1>14. ~ (storage.keys[low.offset] > range[2]) /\ ~ (high < low.offset)
  BY <1>1, <1>8, <1>11, <1>12, <1>13
<1> QED
  BY <1>4, <1>5, <1>7, <1>14 DEF low, high

(* Otherwise the two searches give the first and the last element in range. *)
LEMMA RangeFound ==
    ASSUME ScanAssumption, storage \in Storages, range \in Bounds \X Bounds,
           LowerBound(storage, range[1]).found,
           storage.keys[LowerBound(storage, range[1]).offset] <= range[2]
    PROVE  LET low == LowerBound(storage, range[1])
               high == UpperBound(storage, range[2], low.segment)
           IN  /\ low.segment \in DOMAIN storage.sizes
               /\ low.offset \in Occupied(storage) /\ Holds(storage, low.segment, low.offset)
               /\ high \in Occupied(storage) /\ low.offset <= high
               /\ \A i \in Occupied(storage) : i < low.offset => i \notin InRange
               /\ \A i \in Occupied(storage) :
                     low.offset <= i => (i < high + 1 <=> i \in InRange)
<1> DEFINE low == LowerBound(storage, range[1])
           high == UpperBound(storage, range[2], low.segment)
<1>1. /\ SegmentCapacity \in Nat \ {0} /\ IsArray(storage)
      /\ range[1] \in Int /\ range[2] \in Int
  BY TheArray
<1>2. /\ low.segment \in DOMAIN storage.sizes
      /\ low.offset \in Occupied(storage) /\ Holds(storage, low.segment, low.offset)
      /\ range[1] <= storage.keys[low.offset]
      /\ \A j \in Occupied(storage) : j < low.offset => storage.keys[j] < range[1]
  BY <1>1, LowerBoundIs
<1>3. storage.keys[low.offset] <= range[2]
  OBVIOUS
<1> HIDE DEF low
<1>4. /\ high \in Occupied(storage) /\ low.offset <= high
      /\ \A j \in Occupied(storage) : j <= high <=> storage.keys[j] <= range[2]
  BY <1>1, <1>2, <1>3, UpperBoundIs
<1> HIDE DEF high
<1>5. high \in Nat /\ low.offset \in Nat /\ storage.keys[low.offset] \in Int
  BY <1>1, <1>2, <1>4, OccupiedSlot
<1>6. ASSUME NEW i \in Occupied(storage) PROVE i < low.offset => i \notin InRange
  <2>1. storage.keys[i] \in Int
    BY <1>1, OccupiedSlot
  <2> QED
    BY <1>1, <1>2, <2>1 DEF InRange
<1>7. ASSUME NEW i \in Occupied(storage), low.offset <= i PROVE i < high + 1 <=> i \in InRange
  <2>1. i \in Nat /\ storage.keys[i] \in Int
    BY <1>1, OccupiedSlot
  <2>2. storage.keys[low.offset] <= storage.keys[i]
    BY <1>1, <1>2, <1>7, Sorted
  <2>3. range[1] <= storage.keys[i]
    BY <1>1, <1>2, <1>5, <2>1, <2>2
  <2>4. i \in InRange <=> storage.keys[i] <= range[2]
    BY <2>3 DEF InRange
  <2>5. i < high + 1 <=> i <= high
    BY <1>5, <2>1
  <2> QED
    BY <1>4, <2>4, <2>5
<1> QED
  BY <1>2, <1>4, <1>6, <1>7 DEF low, high

(* A scan that begins at the first element in range. *)
LEMMA EnterWalk ==
    ASSUME ScanAssumption, storage \in Storages, range \in Bounds \X Bounds,
           LowerBound(storage, range[1]).found,
           storage.keys[LowerBound(storage, range[1]).offset] <= range[2],
           NEW s \in Int,
           \/ s = After(LowerBound(storage, range[1]).segment)
           \/ /\ s >= NumberSegments(storage)
              /\ After(LowerBound(storage, range[1]).segment) >= NumberSegments(storage)
    PROVE  LET low == LowerBound(storage, range[1])
               last == UpperBound(storage, range[2], low.segment) + 1
               to == Min2(last, RunEnd(storage, low.segment))
           IN  /\ WalkIs(storage, InRange, <<>>, low.offset, to, last, s)
               /\ {low.offset, to, last} \subseteq 0 .. (NumberSegments(storage) * SegmentCapacity)
<1> DEFINE low == LowerBound(storage, range[1])
           high == UpperBound(storage, range[2], low.segment)
           last == high + 1
           to == Min2(last, RunEnd(storage, low.segment))
           NC == NumberSegments(storage) * SegmentCapacity
<1>1. /\ SegmentCapacity \in Nat \ {0} /\ IsArray(storage)
      /\ range[1] \in Int /\ range[2] \in Int
  BY TheArray
<1>2. /\ low.segment \in DOMAIN storage.sizes
      /\ low.offset \in Occupied(storage) /\ Holds(storage, low.segment, low.offset)
      /\ high \in Occupied(storage) /\ low.offset <= high
      /\ \A i \in Occupied(storage) : i < low.offset => i \notin InRange
      /\ \A i \in Occupied(storage) : low.offset <= i => (i < high + 1 <=> i \in InRange)
  BY RangeFound
<1>3. \/ s = After(low.segment)
      \/ s >= NumberSegments(storage) /\ After(low.segment) >= NumberSegments(storage)
  OBVIOUS
<1> HIDE DEF low
<1>4. high \in Nat /\ low.offset \in Nat /\ high < NC
  BY <1>1, <1>2, OccupiedSlot DEF NC
<1> HIDE DEF high
<1>5. last \in Int /\ last - 1 = high /\ last - 1 \in Occupied(storage)
  BY <1>2, <1>4
<1>6. /\ NC \in Nat /\ RunEnd(storage, low.segment) \in Nat
      /\ FirstSlot(storage, low.segment) <= low.offset /\ low.offset < RunEnd(storage, low.segment)
  <2>1. /\ EndSlot(storage, low.segment) <= RunEnd(storage, low.segment)
        /\ RunEnd(storage, low.segment) \in Nat
    BY <1>1, <1>2, RunSlots
  <2>2. EndSlot(storage, low.segment) \in Nat /\ NC \in Nat
    BY <1>1, <1>2, SegmentSlots DEF NC
  <2>3. FirstSlot(storage, low.segment) <= low.offset /\ low.offset < EndSlot(storage, low.segment)
    BY <1>2 DEF Holds
  <2> QED
    BY <1>4, <2>1, <2>2, <2>3
<1>7. RunIs(storage, low.offset, to, last, s)
  <2> HIDE DEF last
  <2> QED
    BY <1>1, <1>2, <1>3, <1>4, <1>5, <1>6, EnterRun
<1>8. to \in Int /\ low.offset < to /\ to <= last
  BY <1>2, <1>4, <1>6 DEF Min2
<1> HIDE DEF to
<1>9. WalkIs(storage, InRange, <<>>, low.offset, to, last, s)
  <2>1. \A i \in Occupied(storage) : i \in Nat
    BY <1>1, OccupiedSlot
  <2>2. ~ (to <= low.offset)
    BY <1>4, <1>8
  <2>3. \A i \in Occupied(storage) : low.offset <= i => (i < last <=> i \in InRange)
    BY <1>2
  <2>4. Len(<<>>) = 0 /\ 1 .. 0 = {}
    OBVIOUS
  <2>5. \A i \in Occupied(storage) :
           (\E k \in 1 .. Len(<<>>) : <<>>[k] = i) <=> i \in InRange /\ i < low.offset
    BY <1>2, <2>4
  <2>6. \A i, j \in 1 .. Len(<<>>) : i < j => <<>>[i] < <<>>[j]
    BY <2>4
  <2> HIDE DEF last
  <2> QED
    BY <1>7, <2>2, <2>3, <2>5, <2>6 DEF WalkIs
<1>10. {low.offset, to, last} \subseteq 0 .. NC
  BY <1>2, <1>4, <1>5, <1>6, <1>8
<1> QED
  BY <1>9, <1>10 DEF low, high, to, NC

(* A scan of nothing. *)
LEMMA EmptyWalk ==
    ASSUME NEW st, IsArray(st), SegmentCapacity \in Nat \ {0}, NEW s
    PROVE  WalkIs(st, {}, <<>>, 0, 0, 0, s)
<1>1. \A i \in Occupied(st) : i \in Nat
  BY OccupiedSlot
<1>2. Len(<<>>) = 0 /\ 1 .. 0 = {}
  OBVIOUS
<1>3. \A i \in Occupied(st) : (\E k \in 1 .. Len(<<>>) : <<>>[k] = i) <=> i \in {} /\ i < 0
  BY <1>1, <1>2
<1>4. \A i \in Occupied(st) : 0 <= i => (i < 0 <=> i \in {})
  BY <1>1
<1>5. \A i, j \in 1 .. Len(<<>>) : i < j => <<>>[i] < <<>>[j]
  BY <1>2
<1> QED
  BY <1>3, <1>4, <1>5 DEF WalkIs

(* The keys of no slots. *)
LEMMA NoKeys ==
    ASSUME NEW keys PROVE KeysAlong(<<>>, keys) = 0
<1> DEFINE g == [i \in 0 .. 0 |-> 0]
<1>1. AreKeys(<<>>, <<>>, 0, keys)
  BY DEF AreKeys
<1>2. IsSums(g, 0, <<>>) /\ g[0] = 0
  BY DEF IsSums
<1> HIDE DEF g
<1> QED
  BY <1>1, <1>2, KeysAlongIs, Zenon

(* VisitedKeys is the sum of the keys of the slots visited. *)
LEMMA VisitedKeysAre == VisitedKeys = KeysAlong(visited, storage.keys)
BY Zenon DEF VisitedKeys, KeysAlong

-----------------------------------------------------------------------------
(* The steps *)

(* What the invariant says before any scan has begun, and that it begins so. *)
LEMMA ScanBegins ==
    ASSUME ScanAssumption, ScanInit
    PROVE  ScanInv
<1>1. /\ SegmentCapacity \in Nat \ {0} /\ IsArray(storage)
      /\ storage \in Storages /\ range \in Bounds \X Bounds
  BY TheArray DEF ScanInit
<1>2. NumberSegments(storage) \in Nat /\ NumberSegments(storage) * SegmentCapacity \in Nat
  <2>1. 0 \in DOMAIN storage.sizes /\ NumberSegments(storage) \in Nat
    BY <1>1, Segments
  <2> QED
    BY <1>1, <2>1, SegmentSlots
<1>3. /\ phase = "start" /\ segment = 0 /\ offset = 0 /\ stop = 0 /\ end = 0
      /\ visited = <<>> /\ sum = [m_num_elements |-> 0, m_sum_keys |-> 0]
  BY DEF ScanInit, ScanStart
<1>4. ScanTypeInv
  <2>1. segment \in 0 .. (NumberSegments(storage) + 1)
    BY <1>2, <1>3
  <2>2. {offset, stop, end} \subseteq 0 .. (NumberSegments(storage) * SegmentCapacity)
    BY <1>2, <1>3
  <2>3. visited \in Seq(Occupied(storage)) /\ sum \in [m_num_elements : Nat, m_sum_keys : Int]
    BY <1>3
  <2> QED
    BY <1>3, <2>1, <2>2, <2>3 DEF ScanTypeInv
<1> QED
  BY <1>1, <1>3, <1>4 DEF ScanInv

(* A scan that begins and visits nothing. *)
LEMMA EmptyStep ==
    ASSUME ScanAssumption, ScanInv, InRange = {}, phase = "start",
           NEW kind \in {"iterate", "sum", "raised"}, Enter(kind), Empty
    PROVE  ScanInv'
<1>1. /\ SegmentCapacity \in Nat \ {0} /\ IsArray(storage)
      /\ storage \in Storages /\ range \in Bounds \X Bounds
  BY TheArray DEF ScanInv
<1>2. /\ visited = <<>> /\ sum = [m_num_elements |-> 0, m_sum_keys |-> 0] /\ ScanTypeInv
  BY DEF ScanInv
<1>3. NumberSegments(storage) \in Nat /\ NumberSegments(storage) * SegmentCapacity \in Nat
  <2>1. 0 \in DOMAIN storage.sizes /\ NumberSegments(storage) \in Nat
    BY <1>1, Segments
  <2> QED
    BY <1>1, <2>1, SegmentSlots
<1>4. /\ phase' = kind /\ storage' = storage /\ range' = range /\ visited' = visited /\ sum' = sum
      /\ offset' = 0 /\ stop' = 0 /\ end' = 0 /\ segment' = segment
  BY DEF Enter, Empty
<1>5. InRange' = {}
  BY <1>4 DEF InRange
<1>6. ScanTypeInv'
  <2>1. {offset', stop', end'} \subseteq 0 .. (NumberSegments(storage) * SegmentCapacity)
    BY <1>3, <1>4
  <2> QED
    BY <1>2, <1>4, <2>1 DEF ScanTypeInv
<1>7. Walk'
  <2>1. WalkIs(storage, {}, <<>>, 0, 0, 0, Upcoming')
    BY <1>1, EmptyWalk
  <2> QED
    BY <1>2, <1>4, <1>5, <2>1 DEF Walk
<1>8. (sum = [m_num_elements |-> Len(visited), m_sum_keys |-> VisitedKeys])'
  <2>1. KeysAlong(<<>>, storage'.keys) = 0
    BY NoKeys
  <2>2. VisitedKeys' = KeysAlong(visited', storage'.keys)
    BY Zenon DEF VisitedKeys, KeysAlong
  <2>3. VisitedKeys' = 0
    BY <1>2, <1>4, <2>1, <2>2, Zenon
  <2>4. Len(visited') = 0
    BY <1>2, <1>4
  <2> QED
    BY <1>2, <1>4, <2>3, <2>4
<1> QED
  BY <1>1, <1>2, <1>4, <1>5, <1>6, <1>7, <1>8 DEF ScanInv

(* A scan that begins at the first element in range. *)
LEMMA FoundStep ==
    ASSUME ScanAssumption, ScanInv, phase = "start",
           NEW kind \in {"iterate", "sum"}, Enter(kind),
           LowerBound(storage, range[1]).found,
           storage.keys[LowerBound(storage, range[1]).offset] <= range[2],
           offset' = LowerBound(storage, range[1]).offset,
           end' = UpperBound(storage, range[2], LowerBound(storage, range[1]).segment) + 1,
           stop' = Min2(end', RunEnd(storage, LowerBound(storage, range[1]).segment)),
           segment' \in 0 .. (NumberSegments(storage) + 1),
           Upcoming' \in Int,
           \/ Upcoming' = After(LowerBound(storage, range[1]).segment)
           \/ /\ Upcoming' >= NumberSegments(storage)
              /\ After(LowerBound(storage, range[1]).segment) >= NumberSegments(storage)
    PROVE  ScanInv'
<1>1. storage \in Storages /\ range \in Bounds \X Bounds
  BY DEF ScanInv
<1>2. visited = <<>> /\ sum = [m_num_elements |-> 0, m_sum_keys |-> 0] /\ ScanTypeInv
  BY DEF ScanInv
<1>3. /\ phase' = kind /\ storage' = storage /\ range' = range /\ visited' = visited /\ sum' = sum
  BY DEF Enter
<1>4. /\ WalkIs(storage, InRange, <<>>, offset', stop', end', Upcoming')
      /\ {offset', stop', end'} \subseteq 0 .. (NumberSegments(storage) * SegmentCapacity)
  BY <1>1, EnterWalk
<1>5. InRange' = InRange
  BY <1>3 DEF InRange
<1>6. ScanTypeInv'
  BY <1>2, <1>3, <1>4 DEF ScanTypeInv
<1>7. Walk'
  BY <1>2, <1>3, <1>4, <1>5 DEF Walk
<1>8. (sum = [m_num_elements |-> Len(visited), m_sum_keys |-> VisitedKeys])'
  <2>1. KeysAlong(<<>>, storage'.keys) = 0
    BY NoKeys
  <2>2. VisitedKeys' = KeysAlong(visited', storage'.keys)
    BY Zenon DEF VisitedKeys, KeysAlong
  <2>3. VisitedKeys' = 0
    BY <1>2, <1>3, <2>1, <2>2, Zenon
  <2>4. Len(visited') = 0
    BY <1>2, <1>3
  <2> QED
    BY <1>2, <1>3, <2>3, <2>4
<1> QED
  BY <1>1, <1>3, <1>6, <1>7, <1>8 DEF ScanInv

(* The constructor of Iterator. *)
LEMMA IteratorStep ==
    ASSUME ScanAssumption, ScanInv, Iterator
    PROVE  ScanInv'
<1> DEFINE low == LowerBound(storage, range[1])
           high == UpperBound(storage, range[2], low.segment)
<1>1. storage \in Storages /\ range \in Bounds \X Bounds
  BY DEF ScanInv
<1>2. SegmentCapacity \in Nat \ {0} /\ IsArray(storage)
  BY <1>1, TheArray
<1>3. phase = "start"
  BY DEF Iterator, Enter
<1>4. CASE find_first(storage, range[1]) > find_last(storage, range[2]) /\ Enter("raised") /\ Empty
  <2>1. InRange = {}
    BY <1>1, <1>4, EmptyRange
  <2> QED
    BY <1>3, <1>4, <2>1, EmptyStep
<1>5. CASE /\ Enter("iterate") /\ Empty
           /\ ~ low.found \/ storage.keys[low.offset] > range[2] \/ high < low.offset
  <2>1. InRange = {}
    BY <1>1, <1>5, EmptyRange
  <2> QED
    BY <1>3, <1>5, <2>1, EmptyStep
<1>6. CASE /\ Enter("iterate") /\ low.found /\ storage.keys[low.offset] <= range[2]
           /\ segment' = low.segment + 1 +
                 (IF low.segment % 2 = 0 /\ low.segment + 1 < NumberSegments(storage) THEN 1 ELSE 0)
           /\ offset' = low.offset /\ end' = high + 1
           /\ stop' = Min2(high + 1, RunEnd(storage, low.segment))
  <2>1. low.segment \in DOMAIN storage.sizes
    BY <1>1, <1>6, RangeFound
  <2> HIDE DEF low
  <2>2. /\ NumberSegments(storage) \in Nat \ {0}
        /\ low.segment \in 0 .. (NumberSegments(storage) - 1)
    BY <1>2, <2>1, Segments
  <2>3. segment' \in 0 .. (NumberSegments(storage) + 1)
    BY <1>6, <2>2
  <2>4. Upcoming' = segment'
    BY <1>6 DEF Upcoming, Enter
  <2>5. \/ segment' = After(low.segment)
        \/ /\ segment' >= NumberSegments(storage)
           /\ After(low.segment) >= NumberSegments(storage)
    <3>1. CASE low.segment % 2 = 0 /\ low.segment + 1 < NumberSegments(storage)
      BY <1>6, <2>2, <3>1 DEF After
    <3>2. CASE low.segment % 2 # 0
      BY <1>6, <2>2, <3>2 DEF After
    <3>3. CASE low.segment % 2 = 0 /\ ~ (low.segment + 1 < NumberSegments(storage))
      BY <1>6, <2>2, <3>3 DEF After
    <3> QED
      BY <3>1, <3>2, <3>3
  <2>6. Upcoming' \in Int
    BY <2>3, <2>4
  <2> QED
    BY <1>3, <1>6, <2>3, <2>4, <2>5, <2>6, FoundStep DEF low
<1> QED
  BY <1>4, <1>5, <1>6 DEF Iterator

(* do_sum up to its loop. *)
LEMMA SumStep ==
    ASSUME ScanAssumption, ScanInv, do_sum
    PROVE  ScanInv'
<1> DEFINE low == LowerBound(storage, range[1])
           high == UpperBound(storage, range[2], low.segment)
           invalid == range[2] < range[1] \/
                      find_last(storage, range[2]) < find_first(storage, range[1])
<1>1. storage \in Storages /\ range \in Bounds \X Bounds
  BY DEF ScanInv
<1>2. SegmentCapacity \in Nat \ {0} /\ IsArray(storage) /\ range[1] \in Int /\ range[2] \in Int
  BY <1>1, TheArray
<1>3. phase = "start" /\ Enter("sum")
  BY DEF do_sum, Enter
<1>4. CASE /\ invalid \/ ~ low.found \/ storage.keys[low.offset] > range[2] \/ high < low.offset
           /\ Empty
  <2>1. /\ NumberSegments(storage) \in Nat
        /\ find_first(storage, range[1]) \in DOMAIN storage.sizes
        /\ find_last(storage, range[2]) \in DOMAIN storage.sizes
        /\ DOMAIN storage.sizes = 0 .. (NumberSegments(storage) - 1)
    BY <1>2, Segments, FindFirstIs, FindLastIs
  <2>2. find_last(storage, range[2]) < find_first(storage, range[1]) =>
           find_first(storage, range[1]) > find_last(storage, range[2])
    BY <2>1
  <2>3. InRange = {}
    BY <1>1, <1>4, <2>2, EmptyRange
  <2> QED
    BY <1>3, <1>4, <2>3, EmptyStep
<1>5. CASE /\ low.found /\ storage.keys[low.offset] <= range[2]
           /\ segment' = low.segment /\ offset' = low.offset /\ end' = high + 1
           /\ stop' = Min2(high + 1, RunEnd(storage, low.segment))
  <2>1. low.segment \in DOMAIN storage.sizes
    BY <1>1, <1>5, RangeFound
  <2> HIDE DEF low
  <2>2. /\ NumberSegments(storage) \in Nat \ {0}
        /\ low.segment \in 0 .. (NumberSegments(storage) - 1)
    BY <1>2, <2>1, Segments
  <2>3. segment' \in 0 .. (NumberSegments(storage) + 1)
    BY <1>5, <2>2
  <2>4. Upcoming' = After(low.segment)
    BY <1>3, <1>5 DEF Upcoming, NextEven, After, Enter
  <2>5. Upcoming' \in Int
    BY <2>2, <2>4 DEF After
  <2> QED
    BY <1>3, <1>5, <2>3, <2>4, <2>5, FoundStep DEF low
<1> QED
  BY <1>4, <1>5 DEF do_sum

(* What the invariant says of a scan that is not at its end. *)
LEMMA InsideRun ==
    ASSUME ScanAssumption, ScanInv, phase \in {"iterate", "sum"}, offset < stop \/ offset < end
    PROVE  /\ SegmentCapacity \in Nat \ {0} /\ IsArray(storage)
           /\ NumberSegments(storage) \in Nat \ {0}
           /\ NumberSegments(storage) * SegmentCapacity \in Nat
           /\ segment \in 0 .. (NumberSegments(storage) + 1) /\ Upcoming \in Int
           /\ offset \in Nat /\ stop \in Nat /\ end \in Nat /\ offset < stop /\ stop <= end
           /\ {offset, stop, end} \subseteq 0 .. (NumberSegments(storage) * SegmentCapacity)
           /\ WalkIs(storage, InRange, visited, offset, stop, end, Upcoming)
           /\ RunIs(storage, offset, stop, end, Upcoming)
           /\ InRange \in SUBSET Occupied(storage)
           /\ visited \in Seq(Occupied(storage))
<1>1. /\ SegmentCapacity \in Nat \ {0} /\ IsArray(storage) /\ InRange \in SUBSET Occupied(storage)
  BY TheArray DEF ScanInv
<1>2. NumberSegments(storage) \in Nat \ {0} /\ NumberSegments(storage) * SegmentCapacity \in Nat
  <2>1. 0 \in DOMAIN storage.sizes /\ NumberSegments(storage) \in Nat \ {0}
    BY <1>1, Segments
  <2> QED
    BY <1>1, <2>1, SegmentSlots
<1>3. /\ segment \in 0 .. (NumberSegments(storage) + 1)
      /\ {offset, stop, end} \subseteq 0 .. (NumberSegments(storage) * SegmentCapacity)
      /\ visited \in Seq(Occupied(storage))
  BY DEF ScanInv, ScanTypeInv
<1>4. offset \in Nat /\ stop \in Nat /\ end \in Nat
  BY <1>2, <1>3
<1>5. Upcoming \in Int
  BY <1>2, <1>3 DEF Upcoming, NextEven
<1>6. WalkIs(storage, InRange, visited, offset, stop, end, Upcoming)
  BY DEF ScanInv, Walk
<1>7. offset < stop
  <2>1. stop <= offset => end <= offset
    BY <1>6 DEF WalkIs
  <2> QED
    BY <1>4, <2>1
<1>8. RunIs(storage, offset, stop, end, Upcoming)
  BY <1>6, <1>7 DEF WalkIs
<1>9. stop <= end
  BY <1>8 DEF RunIs
<1> QED
  BY <1>1, <1>2, <1>3, <1>4, <1>5, <1>6, <1>7, <1>8, <1>9

(* What next() does to the slots visited. *)
LEMMA OneMore ==
    ASSUME NEW s \in Seq(Int), NEW x \in Int
    PROVE  ExtendedBy(Append(s, x), s, x, 1)
<1>1. /\ Append(s, x) \in Seq(Int) /\ Len(s) \in Nat /\ Len(Append(s, x)) = Len(s) + 1
      /\ \A i \in 1 .. Len(s) : Append(s, x)[i] = s[i]
      /\ \A i \in 1 .. 1 : Append(s, x)[Len(s) + i] = x + i - 1
  OBVIOUS
<1>2. 1 \in Nat
  OBVIOUS
<1> QED
  BY <1>1, <1>2, Zenon DEF ExtendedBy

(* What the loop of do_sum does to them. *)
LEMMA RunMore ==
    ASSUME NEW s \in Seq(Int), NEW from \in Int, NEW n \in Nat
    PROVE  ExtendedBy(s \o RunFrom(from, n), s, from, n)
<1>1. /\ RunFrom(from, n) \in Seq(Int) /\ Len(RunFrom(from, n)) = n
      /\ \A i \in 1 .. n : RunFrom(from, n)[i] = from + i - 1
  <2>1. \A i \in 1 .. n : from + i - 1 \in Int
    OBVIOUS
  <2> QED
    BY <2>1, RunFromIs
<1>2. \A r \in Seq(Int) :
        /\ s \o r \in Seq(Int) /\ Len(s) \in Nat /\ Len(s \o r) = Len(s) + Len(r)
        /\ \A i \in 1 .. Len(s) : (s \o r)[i] = s[i]
        /\ \A i \in 1 .. Len(r) : (s \o r)[Len(s) + i] = r[i]
  BY Concatenated
<1> QED
  BY <1>1, <1>2 DEF ExtendedBy

(* next(): one element, and the next run when the current one is at its end. *)
LEMMA NextStep ==
    ASSUME ScanAssumption, ScanInv, next
    PROVE  ScanInv'
<1> DEFINE N == NumberSegments(storage)
           NC == N * SegmentCapacity
<1>1. /\ phase = "iterate" /\ phase' = phase /\ offset < stop
      /\ storage' = storage /\ range' = range /\ end' = end /\ sum' = sum
      /\ visited' = Append(visited, offset)
  BY DEF next
<1>2. /\ SegmentCapacity \in Nat \ {0} /\ IsArray(storage)
      /\ N \in Nat \ {0} /\ NC \in Nat /\ segment \in 0 .. (N + 1) /\ Upcoming \in Int
      /\ offset \in Nat /\ stop \in Nat /\ end \in Nat /\ offset < stop /\ stop <= end
      /\ {offset, stop, end} \subseteq 0 .. NC
      /\ WalkIs(storage, InRange, visited, offset, stop, end, Upcoming)
      /\ RunIs(storage, offset, stop, end, Upcoming)
      /\ InRange \in SUBSET Occupied(storage)
      /\ visited \in Seq(Occupied(storage))
  BY <1>1, InsideRun
<1>20. /\ N \in Nat /\ NC \in Nat /\ segment \in Int /\ 0 <= segment
       /\ offset \in Nat /\ stop \in Nat /\ end \in Nat /\ offset < stop /\ stop <= end
       /\ offset <= NC /\ stop <= NC /\ end <= NC
  <2> HIDE DEF N, NC
  <2> QED
    BY <1>2
<1>3. Upcoming = segment /\ Upcoming' = segment'
  BY <1>1 DEF Upcoming
<1>4. InRange' = InRange
  BY <1>1 DEF InRange
<1>5. \A i \in Int : offset <= i /\ i < stop => i \in Occupied(storage)
  BY <1>2 DEF RunIs
<1>6. /\ visited' \in Seq(Occupied(storage))
      /\ Extended(visited', visited, offset, 1, storage.keys)
  <2>1. \A i \in Occupied(storage) : i \in Int
    BY <1>2, OccupiedSlot
  <2>2. visited \in Seq(Int) /\ offset \in Int
    BY <1>2, <2>1
  <2>3. ExtendedBy(visited', visited, offset, 1)
    BY <1>1, <2>2, OneMore
  <2>4. \A i \in Int : offset <= i /\ i < offset + 1 => i \in Occupied(storage)
    BY <1>2, <1>5
  <2> QED
    BY <1>2, <2>3, <2>4, ExtendedSlots, Zenon
<1>7. \A k \in 1 .. Len(visited) : visited[k] \in Occupied(storage)
  BY <1>2
<1>8. /\ segment' \in 0 .. (N + 1) /\ offset' \in 0 .. NC /\ stop' \in 0 .. NC
      /\ offset + 1 <= offset'
      /\ \A i \in Occupied(storage) : offset + 1 <= i /\ i < end => offset' <= i
      /\ offset' < stop' => RunIs(storage, offset', stop', end, segment')
      /\ stop' <= offset' => end <= offset'
  <2>1. CASE offset + 1 >= stop /\ segment < N
    <3>1. /\ offset' = FirstSlot(storage, segment) /\ segment' = NextSegment
          /\ stop' = Min2(end, RunEnd(storage, segment))
      BY <2>1 DEF next, N
    <3>2. stop = offset + 1
      BY <1>2, <2>1
    <3>3. segment % 2 = 0
      BY <1>2, <1>3, <2>1 DEF RunIs, N
    <3>4. segment' = After(segment) /\ After(segment) \in Int /\ segment' \in 0 .. (N + 1)
      <4>1. segment' = segment + 2 /\ After(segment) = segment + 1 + 1
        BY <3>1, <3>3 DEF NextSegment, After
      <4> HIDE DEF N, NC
      <4> QED
        BY <1>20, <2>1, <4>1
    <3>5. /\ stop <= offset' /\ offset' \in 0 .. NC /\ stop' \in 0 .. NC
          /\ RunIs(storage, offset', stop', end, After(segment))
          /\ stop' <= offset' => end <= offset'
          /\ \A i \in Occupied(storage) : stop <= i /\ i < end => offset' <= i
      BY <1>2, <1>3, <2>1, <3>1, <3>4, LeaveRun DEF N, NC
    <3> QED
      BY <3>2, <3>4, <3>5
  <2>2. CASE offset + 1 >= stop /\ ~ (segment < N)
    <3>1. offset' = offset + 1 /\ stop' = stop /\ segment' = segment
      BY <2>2 DEF next, N
    <3>2. stop = offset + 1
      BY <1>2, <2>2
    <3>3. segment >= N
      BY <1>2, <2>2
    <3>4. stop = end
      BY <1>2, <1>3, <3>3, LastRun DEF N
    <3>5. \A i \in Occupied(storage) : i \in Int
      BY <1>2, OccupiedSlot
    <3> HIDE DEF NC
    <3> QED
      BY <1>2, <3>1, <3>2, <3>4, <3>5
  <2>3. CASE ~ (offset + 1 >= stop)
    <3>1. offset' = offset + 1 /\ stop' = stop /\ segment' = segment
      BY <2>3 DEF next
    <3>2. \A i \in Int : offset' <= i /\ i < stop' => i \in Occupied(storage)
      BY <1>2, <1>5, <3>1
    <3>3. RunIs(storage, offset', stop', end, segment')
      BY <1>2, <1>3, <3>1, <3>2 DEF RunIs
    <3>4. ~ (stop' <= offset') /\ offset' \in 0 .. NC /\ stop' \in 0 .. NC
      <4> HIDE DEF N, NC
      <4> QED
        BY <1>20, <2>3, <3>1
    <3> QED
      BY <1>2, <3>1, <3>3, <3>4
  <2> QED
    BY <2>1, <2>2, <2>3
<1> HIDE DEF N, NC
<1>9. WalkIs(storage, InRange, visited', offset', stop', end, segment')
  <2>1. offset' \in Int /\ stop' \in Int /\ stop \in Int /\ end \in Int /\ 0 < 1 /\ offset + 1 <= stop
    BY <1>8, <1>20
  <2>2. Moves(storage, visited, offset, stop, end, 1, offset', stop', segment')
    BY <1>7, <1>8, <2>1, Zenon DEF Moves
  <2> QED
    BY <1>2, <1>3, <1>6, <2>2, WalkOn, Zenon
<1>10. Walk'
  BY <1>1, <1>3, <1>4, <1>9 DEF Walk
<1>11. ScanTypeInv'
  <2>1. sum \in [m_num_elements : Nat, m_sum_keys : Int]
    BY DEF ScanInv, ScanTypeInv
  <2> QED
    BY <1>1, <1>2, <1>6, <1>8, <2>1 DEF ScanTypeInv, N, NC
<1> QED
  BY <1>1, <1>10, <1>11 DEF ScanInv

(* One run of the loop of do_sum. *)
LEMMA SumRunStep ==
    ASSUME ScanAssumption, ScanInv, SumRun
    PROVE  ScanInv'
<1> DEFINE N == NumberSegments(storage)
           NC == N * SegmentCapacity
           n == stop - offset
<1>1. /\ phase = "sum" /\ phase' = phase /\ offset < end
      /\ storage' = storage /\ range' = range /\ end' = end
      /\ sum' = [m_num_elements |-> sum.m_num_elements + n,
                 m_sum_keys |-> sum.m_sum_keys + RunSum(offset, stop)]
      /\ visited' = visited \o RunFrom(offset, n)
  BY DEF SumRun, RunFrom
<1>2. /\ SegmentCapacity \in Nat \ {0} /\ IsArray(storage)
      /\ N \in Nat \ {0} /\ NC \in Nat /\ segment \in 0 .. (N + 1) /\ Upcoming \in Int
      /\ offset \in Nat /\ stop \in Nat /\ end \in Nat /\ offset < stop /\ stop <= end
      /\ {offset, stop, end} \subseteq 0 .. NC
      /\ WalkIs(storage, InRange, visited, offset, stop, end, Upcoming)
      /\ RunIs(storage, offset, stop, end, Upcoming)
      /\ InRange \in SUBSET Occupied(storage)
      /\ visited \in Seq(Occupied(storage))
  BY <1>1, InsideRun
<1>3. /\ N \in Nat /\ NC \in Nat /\ offset \in Nat /\ stop \in Nat /\ end \in Nat
      /\ offset < stop /\ stop <= end /\ offset <= NC /\ stop <= NC /\ end <= NC
  <2> HIDE DEF N, NC
  <2> QED
    BY <1>2
<1>4. n \in Nat /\ 0 < n /\ offset + n = stop
  BY <1>3
<1> HIDE DEF n
<1>5. Upcoming = NextEven
  BY <1>1 DEF Upcoming
<1>6. InRange' = InRange
  BY <1>1 DEF InRange
<1>7. \A i \in Int : offset <= i /\ i < stop => i \in Occupied(storage)
  BY <1>2 DEF RunIs
<1>8. visited \in Seq(Int) /\ offset \in Int
  <2>1. \A i \in Occupied(storage) : i \in Int
    BY <1>2, OccupiedSlot
  <2> QED
    BY <1>2, <2>1
<1>9. /\ visited' \in Seq(Occupied(storage))
      /\ Extended(visited', visited, offset, n, storage.keys)
  <2>1. ExtendedBy(visited', visited, offset, n)
    BY <1>1, <1>4, <1>8, RunMore
  <2>2. \A i \in Int : offset <= i /\ i < offset + n => i \in Occupied(storage)
    BY <1>4, <1>7
  <2> QED
    BY <1>2, <2>1, <2>2, ExtendedSlots, Zenon
<1>10. \A k \in 1 .. Len(visited) : visited[k] \in Occupied(storage)
  BY <1>2
<1>11. /\ segment' \in 0 .. (N + 1) /\ offset' \in 0 .. NC /\ stop' \in 0 .. NC
       /\ stop <= offset'
       /\ \A i \in Occupied(storage) : stop <= i /\ i < end => offset' <= i
       /\ offset' < stop' => RunIs(storage, offset', stop', end, Upcoming')
       /\ stop' <= offset' => end <= offset'
  <2>1. CASE NextEven < N
    <3>1. /\ segment' = NextEven /\ offset' = FirstSlot(storage, NextEven)
          /\ stop' = Min2(end, RunEnd(storage, NextEven))
      BY <2>1 DEF SumRun, N
    <3>2. NextEven \in Nat
      BY <1>2, <1>5, <2>1 DEF RunIs, N
    <3>3. Upcoming' = After(NextEven) /\ After(NextEven) \in Int
      <4>1. Upcoming' = segment' + 1 + (IF segment' % 2 = 0 THEN 1 ELSE 0)
        BY <1>1 DEF Upcoming, NextEven
      <4>2. Upcoming' = After(NextEven)
        BY <3>1, <4>1 DEF After
      <4>3. After(NextEven) \in Int
        <5> DEFINE e == NextEven
        <5>1. e \in Nat
          BY <3>2
        <5> HIDE DEF e
        <5>2. After(e) \in Int
          BY <5>1 DEF After
        <5> QED
          BY <5>2 DEF e
      <4> QED
        BY <4>2, <4>3
    <3>4. /\ stop <= offset' /\ offset' \in 0 .. NC /\ stop' \in 0 .. NC
          /\ RunIs(storage, offset', stop', end, After(NextEven))
          /\ stop' <= offset' => end <= offset'
          /\ \A i \in Occupied(storage) : stop <= i /\ i < end => offset' <= i
      BY <1>2, <1>5, <2>1, <3>1, <3>2, <3>3, LeaveRun DEF N, NC
    <3>5. segment' \in 0 .. (N + 1)
      <4> HIDE DEF N
      <4> QED
        BY <1>3, <2>1, <3>1, <3>2
    <3> QED
      BY <3>3, <3>4, <3>5
  <2>2. CASE ~ (NextEven < N)
    <3>1. segment' = N + 1 /\ offset' = stop /\ stop' = stop
      BY <2>2 DEF SumRun, N, PastLast
    <3>2. Upcoming >= N
      <4> HIDE DEF N
      <4> QED
        BY <1>2, <1>5, <2>2
    <3>3. stop = end
      BY <1>2, <3>2, LastRun DEF N
    <3>4. \A i \in Occupied(storage) : i \in Int
      BY <1>2, OccupiedSlot
    <3> HIDE DEF N, NC
    <3>5. segment' \in 0 .. (N + 1) /\ offset' \in 0 .. NC /\ stop' \in 0 .. NC
      BY <1>3, <3>1
    <3> QED
      BY <1>3, <3>1, <3>3, <3>4, <3>5
  <2> QED
    BY <2>1, <2>2
<1> HIDE DEF N, NC
<1>12. WalkIs(storage, InRange, visited', offset', stop', end, Upcoming')
  <2>1. offset' \in Int /\ stop' \in Int /\ stop \in Int /\ end \in Int /\ stop <= stop
    BY <1>3, <1>11
  <2>2. Moves(storage, visited, offset, stop, end, n, offset', stop', Upcoming')
    BY <1>4, <1>10, <1>11, <2>1, Zenon DEF Moves
  <2> QED
    BY <1>2, <1>9, <2>2, WalkOn, Zenon
<1>13. Walk'
  BY <1>1, <1>6, <1>12 DEF Walk
<1>14. /\ sum = [m_num_elements |-> Len(visited), m_sum_keys |-> KeysAlong(visited, storage.keys)]
       /\ sum \in [m_num_elements : Nat, m_sum_keys : Int]
  BY <1>1, VisitedKeysAre DEF ScanInv, ScanTypeInv
<1>15. /\ RunSum(offset, stop) \in Int /\ KeysAlong(visited, storage.keys) \in Int
       /\ KeysAlong(visited', storage'.keys) =
             KeysAlong(visited, storage.keys) + RunSum(offset, stop)
  <2>1. /\ KeysAlong(visited, storage.keys) \in Int /\ RunSum(offset, offset + n) \in Int
        /\ KeysAlong(visited', storage.keys) =
              KeysAlong(visited, storage.keys) + RunSum(offset, offset + n)
    <3>1. Extended(visited', visited, offset, n, storage.keys)
      BY <1>9
    <3> QED
      BY <3>1, SumAppended, SMT
  <2> QED
    BY <1>1, <1>4, <2>1, Zenon
<1>16. Len(visited) \in Nat /\ Len(visited') = Len(visited) + n
  BY <1>9, Zenon DEF Extended
<1>17. (sum = [m_num_elements |-> Len(visited), m_sum_keys |-> VisitedKeys])'
  <2>1. VisitedKeys' = KeysAlong(visited', storage'.keys)
    BY Zenon DEF VisitedKeys, KeysAlong
  <2>2. /\ sum.m_num_elements = Len(visited)
        /\ sum.m_sum_keys = KeysAlong(visited, storage.keys)
    BY <1>14
  <2> QED
    BY <1>1, <1>15, <1>16, <2>1, <2>2, Zenon
<1>18. ScanTypeInv'
  <2>1. sum' \in [m_num_elements : Nat, m_sum_keys : Int]
    <3>1. sum.m_num_elements + n \in Nat /\ sum.m_sum_keys + RunSum(offset, stop) \in Int
      BY <1>4, <1>14, <1>15
    <3> QED
      BY <1>1, <3>1
  <2> QED
    BY <1>1, <1>3, <1>9, <1>11, <2>1 DEF ScanTypeInv, N, NC
<1> QED
  BY <1>1, <1>13, <1>17, <1>18 DEF ScanInv

-----------------------------------------------------------------------------
(* The theorem *)

(* Slots in increasing order are as many as their number in the sequence. *)
LEMMA Counted ==
    ASSUME NEW T \in SUBSET Int, NEW v \in Seq(T), \A i, j \in 1 .. Len(v) : i < j => v[i] < v[j],
           NEW S, S = {v[i] : i \in 1 .. Len(v)}
    PROVE  Cardinality(S) = Len(v)
<1> DEFINE n == Len(v)
<1>1. n \in Nat /\ v \in [1 .. n -> S] /\ v \in [1 .. n -> Int]
  OBVIOUS
<1>2. ASSUME NEW a \in 1 .. n, NEW b \in 1 .. n, v[a] = v[b] PROVE a = b
  <2>1. v[a] \in Int /\ v[b] \in Int /\ ~ (v[a] < v[b]) /\ ~ (v[b] < v[a])
    BY <1>1, <1>2
  <2>2. ~ (a < b) /\ ~ (b < a)
    BY <2>1
  <2> QED
    BY <2>2
<1>3. \A s \in S : \E a \in 1 .. n : v[a] = s
  OBVIOUS
<1> HIDE DEF n
<1>4. v \in Bijection(1 .. n, S)
  BY <1>1, <1>2, <1>3 DEF Bijection, Injection, IsInjective, Surjection
<1>5. ExistsBijection(1 .. n, S)
  BY <1>4 DEF ExistsBijection
<1> QED
  BY <1>1, <1>5, FS_CountingElements DEF n

(* What the invariant says of the elements visited. *)
LEMMA InvariantImplies ==
    ASSUME ScanAssumption, ScanInv
    PROVE  ScanCorrect
<1>1. /\ SegmentCapacity \in Nat \ {0} /\ IsArray(storage)
      /\ InRange \in SUBSET Occupied(storage)
  BY TheArray DEF ScanInv
<1>2. /\ ScanTypeInv /\ visited \in Seq(Occupied(storage))
      /\ phase \in {"start", "iterate", "sum", "raised"}
      /\ {offset, stop, end} \subseteq 0 .. (NumberSegments(storage) * SegmentCapacity)
  BY DEF ScanInv, ScanTypeInv
<1>3. \A i \in Occupied(storage) : i \in Int
  BY <1>1, OccupiedSlot
<1>4. offset \in Int /\ stop \in Int /\ end \in Int
  BY <1>2
<1>5. DOMAIN visited = 1 .. Len(visited) /\ Len(visited) \in Nat
  BY <1>2
<1>6. Visited \subseteq Occupied(storage) /\ Visited = {visited[i] : i \in 1 .. Len(visited)}
  BY <1>2, <1>5 DEF Visited
<1>7. /\ \A i, j \in 1 .. Len(visited) : i < j => visited[i] < visited[j]
      /\ Visited \subseteq InRange
      /\ \A i \in InRange, j \in Visited : i < j => i \in Visited
      /\ Finished => Visited = InRange
  <2>1. CASE phase \in {"start", "raised"}
    <3>1. visited = <<>> /\ (phase = "raised" => InRange = {})
      BY <2>1 DEF ScanInv
    <3>2. Len(visited) = 0 /\ 1 .. Len(visited) = {} /\ Visited = {}
      BY <1>6, <3>1
    <3>3. Finished => InRange = {}
      BY <2>1, <3>1 DEF Finished
    <3> QED
      BY <3>2, <3>3
  <2>2. CASE phase \in {"iterate", "sum"}
    <3>1. WalkIs(storage, InRange, visited, offset, stop, end, Upcoming)
      BY <2>2 DEF ScanInv, Walk
    <3>2. /\ \A i, j \in 1 .. Len(visited) : i < j => visited[i] < visited[j]
          /\ \A i \in Occupied(storage) :
                (\E k \in 1 .. Len(visited) : visited[k] = i) <=> i \in InRange /\ i < offset
          /\ \A i \in Occupied(storage) : offset <= i => (i < end <=> i \in InRange)
          /\ stop <= offset => end <= offset
      BY <3>1 DEF WalkIs
    <3>3. \A i \in Occupied(storage) : i \in Visited <=> i \in InRange /\ i < offset
      BY <1>6, <3>2
    <3>4. Visited \subseteq InRange /\ \A i \in Visited : i < offset
      BY <1>6, <3>3
    <3>5. \A i \in InRange, j \in Visited : i < j => i \in Visited
      <4> SUFFICES ASSUME NEW i \in InRange, NEW j \in Visited, i < j PROVE i \in Visited
        OBVIOUS
      <4>1. i \in Occupied(storage) /\ i \in Int /\ j \in Int /\ j < offset
        BY <1>1, <1>3, <1>6, <3>4
      <4> QED
        BY <1>4, <3>3, <4>1
    <3>6. ASSUME Finished PROVE Visited = InRange
      <4>1. end <= offset
        BY <1>4, <2>2, <3>2, <3>6 DEF Finished
      <4>2. \A i \in InRange : i < offset
        BY <1>1, <1>3, <1>4, <3>2, <4>1
      <4> QED
        BY <1>1, <1>6, <3>3, <3>4, <4>2
    <3> QED
      BY <3>2, <3>4, <3>5, <3>6
  <2> QED
    BY <1>2, <2>1, <2>2
<1>8. VisitsInRange
  BY <1>5, <1>7 DEF VisitsInRange
<1>9. Cardinality(Visited) = Len(visited)
  <2>1. Occupied(storage) \in SUBSET Int
    BY <1>3
  <2> QED
    BY <1>2, <1>6, <1>7, <2>1, Counted
<1>10. ScanComplete
  <2>1. phase = "sum" => sum = [m_num_elements |-> Len(visited), m_sum_keys |-> VisitedKeys]
    BY DEF ScanInv
  <2> QED
    BY <1>7, <1>9, <2>1 DEF ScanComplete
<1> QED
  BY <1>2, <1>8, <1>10 DEF ScanCorrect

(* A scan that ended stays as it is. *)
LEMMA StutterStep ==
    ASSUME ScanInv, UNCHANGED scan_vars
    PROVE  ScanInv'
<1>1. /\ storage' = storage /\ range' = range /\ phase' = phase /\ segment' = segment
      /\ offset' = offset /\ stop' = stop /\ end' = end /\ visited' = visited /\ sum' = sum
  BY DEF scan_vars
<1>2. InRange' = InRange /\ Upcoming' = Upcoming
  BY <1>1 DEF InRange, Upcoming, NextEven
<1>3. VisitedKeys' = VisitedKeys
  BY <1>1, Zenon DEF VisitedKeys
<1> QED
  BY <1>1, <1>2, <1>3 DEF ScanInv, ScanTypeInv, Walk

(* Whatever the sizes of the segments, the leftovers and the range: the iterator and      *)
(* do_sum visit the elements in range, each once and in order, and when a scan ended it   *)
(* has visited all of them, and do_sum has counted them and added up their keys.          *)
THEOREM ScansAreCorrect ==
    ASSUME ScanAssumption
    PROVE  ScanSpec => []ScanCorrect
<1>1. ScanInit => ScanInv
  BY ScanBegins
<1>2. ScanInv /\ [ScanNext]_scan_vars => ScanInv'
  <2> SUFFICES ASSUME ScanInv, [ScanNext]_scan_vars PROVE ScanInv'
    OBVIOUS
  <2>1. CASE Iterator
    BY <2>1, IteratorStep
  <2>2. CASE next
    BY <2>2, NextStep
  <2>3. CASE do_sum
    BY <2>3, SumStep
  <2>4. CASE SumRun
    BY <2>4, SumRunStep
  <2>5. CASE UNCHANGED scan_vars
    BY <2>5, StutterStep
  <2> QED
    BY <2>1, <2>2, <2>3, <2>4, <2>5 DEF ScanNext, Done
<1>3. ScanInv => ScanCorrect
  BY InvariantImplies
<1> QED
  BY <1>1, <1>2, <1>3, PTL DEF ScanSpec
=============================================================================
