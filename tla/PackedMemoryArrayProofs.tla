----------------------- MODULE PackedMemoryArrayProofs -----------------------
(***************************************************************************)
(* The packed memory array is well formed in every reachable state, tries  *)
(* an insertion again at most once, and implements the ordered collection  *)
(* of pma/interface.hpp: for every capacity of the segments, thresholds,   *)
(* set of elements and size of the array.                                  *)
(*                                                                         *)
(* The inductive invariant, IndInv, says more than the array promises in   *)
(* two places.  Between the two steps of a removal the segment that became *)
(* too sparse, and no other, may be empty, and its separator need not be   *)
(* the key of an element.  After a resize the pending insertion has an     *)
(* array that is at most half full.                                        *)
(*                                                                         *)
(* The argument has three layers: sequences (what it is to insert into     *)
(* one, to cut it in parts and to put those together), segments (what the  *)
(* elements of a window are, and that the index leads to the segment where *)
(* a key belongs), and the steps, one lemma for each handler.              *)
(***************************************************************************)
EXTENDS PackedMemoryArray, FiniteSetTheorems, SequenceTheorems, WellFoundedInduction, TLAPS

-----------------------------------------------------------------------------
(* Induction and recursion up to a number *)

(* Every non-empty set of natural numbers has a least element. *)
LEMMA LeastNatural ==
    ASSUME NEW T \in SUBSET Nat, T # {}
    PROVE  \E m \in T : \A k \in T : m <= k
<1> DEFINE R == OpToRel(<, Nat)
<1>1. \A x, y \in Nat : y < x => <<y, x>> \in R
  BY DEF OpToRel
<1>2. IsWellFoundedOn(R, Nat)
  BY NatLessThanWellFounded
<1> HIDE DEF R
<1>3. PICK m \in T : \A k \in T : ~ (<<k, m>> \in R)
  BY <1>2, WFMin, Zenon
<1>4. \A k \in T : ~ (k < m)
  BY <1>1, <1>3
<1> QED
  BY <1>4

(* A set that has 0, and with every number below n the next one, has all up to n. *)
LEMMA UpTo ==
    ASSUME NEW n \in Nat, NEW T, 0 \in T, \A i \in 1 .. n : i - 1 \in T => i \in T
    PROVE  \A i \in 0 .. n : i \in T
<1> DEFINE U == {k \in Nat : k <= n /\ k \notin T}
<1> SUFFICES ASSUME U # {} PROVE FALSE
  OBVIOUS
<1>1. PICK m \in U : \A k \in U : m <= k
  BY LeastNatural
<1>2. m # 0 /\ m - 1 \in Nat /\ m - 1 <= n /\ ~ (m <= m - 1) /\ m \in 1 .. n
  BY <1>1
<1>3. m - 1 \in T
  BY <1>1, <1>2
<1> QED
  BY <1>1, <1>2, <1>3

(* The values of a recursion: the first one, and each from the one before. *)
IsRun(g, first, step, n) ==
    /\ g[0] = first
    /\ \A i \in 1 .. n : g[i] = step[<<g[i - 1], i>>]

(* There is a function with these values. *)
LEMMA RunExists ==
    ASSUME NEW X, NEW first \in X, NEW n \in Nat, NEW step \in [X \X (1 .. n) -> X]
    PROVE  \E g \in [0 .. n -> X] : IsRun(g, first, step, n)
<1> DEFINE T == {k \in 0 .. n : \E g \in [0 .. k -> X] : IsRun(g, first, step, k)}
<1>1. 0 \in T
  <2> DEFINE g == [i \in 0 .. 0 |-> first]
  <2>1. g \in [0 .. 0 -> X] /\ IsRun(g, first, step, 0)
    BY DEF IsRun
  <2> QED
    BY <2>1
<1>2. ASSUME NEW k \in 1 .. n, k - 1 \in T PROVE k \in T
  <2>1. PICK g \in [0 .. (k - 1) -> X] : IsRun(g, first, step, k - 1)
    BY <1>2
  <2>2. g[k - 1] \in X /\ <<g[k - 1], k>> \in X \X (1 .. n)
    BY <2>1
  <2> DEFINE next == step[<<g[k - 1], k>>]
             h == [i \in 0 .. k |-> IF i <= k - 1 THEN g[i] ELSE next]
  <2>3. next \in X
    BY <2>2
  <2> HIDE DEF next
  <2>4. h \in [0 .. k -> X]
    BY <2>1, <2>3
  <2>5. h[0] = first
    BY <2>1 DEF IsRun
  <2>6. ASSUME NEW i \in 1 .. k PROVE h[i] = step[<<h[i - 1], i>>]
    <3>1. h[i - 1] = g[i - 1]
      OBVIOUS
    <3>2. CASE i <= k - 1
      BY <2>1, <3>1, <3>2 DEF IsRun
    <3>3. CASE i = k
      BY <3>1, <3>3, SMTT(30) DEF next
    <3> QED
      BY <3>2, <3>3
  <2> HIDE DEF h
  <2>7. IsRun(h, first, step, k)
    BY <2>5, <2>6 DEF IsRun
  <2> QED
    BY <2>4, <2>7
<1> HIDE DEF T
<1>3. n \in T
  BY <1>1, <1>2, UpTo
<1> QED
  BY <1>3 DEF T

-----------------------------------------------------------------------------
(* The lengths of the windows *)

(* The recursion of WindowLength defines it. *)
LEMMA WindowLengthIs ==
    ASSUME NEW n \in Nat \ {0}
    PROVE  \E g \in [1 .. n -> Nat \ {0}] :
              /\ g[1] = 1 /\ \A h \in 2 .. n : g[h] = 2 * g[h - 1]
              /\ WindowLength(n) = g[n]
<1> DEFINE X == Nat \ {0}
           step == [p \in X \X (1 .. (n - 1)) |-> 2 * p[1]]
           Eq(F) == F = [h \in 1 .. n |-> IF h = 1 THEN 1 ELSE 2 * F[h - 1]]
           L == CHOOSE F : Eq(F)
<1>0. n - 1 \in Nat /\ 1 \in X
  OBVIOUS
<1>1. step \in [X \X (1 .. (n - 1)) -> X]
  OBVIOUS
<1>2. PICK r \in [0 .. (n - 1) -> X] : IsRun(r, 1, step, n - 1)
  <2> HIDE DEF X, step
  <2> QED
    BY <1>0, <1>1, RunExists
<1> DEFINE g == [h \in 1 .. n |-> r[h - 1]]
<1>3. g \in [1 .. n -> X] /\ g[1] = 1
  BY <1>2 DEF IsRun
<1>4. ASSUME NEW h \in 2 .. n PROVE g[h] = 2 * g[h - 1]
  <2>1. h - 1 \in 1 .. (n - 1) /\ (h - 1) - 1 \in 0 .. (n - 1)
    OBVIOUS
  <2>2. r[h - 1] = step[<<r[(h - 1) - 1], h - 1>>] /\ r[(h - 1) - 1] \in X
    BY <1>2, <2>1 DEF IsRun
  <2>3. step[<<r[(h - 1) - 1], h - 1>>] = 2 * r[(h - 1) - 1]
    BY <2>1, <2>2
  <2> HIDE DEF step
  <2> QED
    BY <2>1, <2>2, <2>3
<1> HIDE DEF g, step
<1>5. g = [h \in 1 .. n |-> g[h]]
  BY <1>3
<1>6. Eq(g)
  <2>1. \A h \in 1 .. n : g[h] = IF h = 1 THEN 1 ELSE 2 * g[h - 1]
    BY <1>3, <1>4
  <2> QED
    BY <1>5, <2>1, Zenon
<1> HIDE DEF Eq
<1>7. Eq(L)
  BY <1>6
<1>8. WindowLength(n) = L[n]
  BY DEF WindowLength, Eq
<1> HIDE DEF L
<1>9. DOMAIN L = 1 .. n /\ L[1] = 1 /\ \A h \in 2 .. n : L[h] = 2 * L[h - 1]
  BY <1>7 DEF Eq
<1> DEFINE T == {i \in 0 .. (n - 1) : g[i + 1] = L[i + 1]}
<1>10. \A i \in 0 .. (n - 1) : i \in T
  <2>1. 0 \in T
    BY <1>0, <1>3, <1>9
  <2>2. ASSUME NEW i \in 1 .. (n - 1), i - 1 \in T PROVE i \in T
    <3>1. i + 1 \in 2 .. n /\ (i + 1) - 1 = i /\ (i - 1) + 1 = i
      OBVIOUS
    <3>2. g[i] = L[i]
      BY <2>2, <3>1
    <3>3. g[i + 1] = 2 * g[i] /\ L[i + 1] = 2 * L[i]
      BY <1>4, <1>9, <3>1
    <3> QED
      BY <3>2, <3>3
  <2> HIDE DEF T
  <2> QED
    BY <1>0, <2>1, <2>2, UpTo
<1>11. g[n] = L[n]
  <2>1. n - 1 \in 0 .. (n - 1) /\ (n - 1) + 1 = n
    OBVIOUS
  <2> QED
    BY <1>10, <2>1
<1> QED
  BY <1>3, <1>4, <1>8, <1>11

(* A window has one segment, or twice as many as those below it. *)
LEMMA WindowLengths ==
    /\ WindowLength(1) = 1
    /\ \A h \in Nat \ {0} : WindowLength(h) \in Nat \ {0} /\ WindowLength(h + 1) = 2 * WindowLength(h)
<1>1. WindowLength(1) = 1
  BY WindowLengthIs
<1>2. ASSUME NEW h \in Nat \ {0}
      PROVE  WindowLength(h) \in Nat \ {0} /\ WindowLength(h + 1) = 2 * WindowLength(h)
  <2>1. PICK g \in [1 .. h -> Nat \ {0}] :
              /\ g[1] = 1 /\ \A k \in 2 .. h : g[k] = 2 * g[k - 1]
              /\ WindowLength(h) = g[h]
    BY WindowLengthIs
  <2>2. PICK f \in [1 .. (h + 1) -> Nat \ {0}] :
              /\ f[1] = 1 /\ \A k \in 2 .. (h + 1) : f[k] = 2 * f[k - 1]
              /\ WindowLength(h + 1) = f[h + 1]
    <3>1. h + 1 \in Nat \ {0}
      OBVIOUS
    <3> QED
      BY <3>1, WindowLengthIs
  <2> DEFINE T == {i \in 0 .. (h - 1) : g[i + 1] = f[i + 1]}
  <2>3. \A i \in 0 .. (h - 1) : i \in T
    <3>0. h - 1 \in Nat
      OBVIOUS
    <3>1. 0 \in T
      BY <2>1, <2>2, <3>0
    <3>2. ASSUME NEW i \in 1 .. (h - 1), i - 1 \in T PROVE i \in T
      <4>1. i + 1 \in 2 .. h /\ i + 1 \in 2 .. (h + 1) /\ (i + 1) - 1 = i /\ (i - 1) + 1 = i
        OBVIOUS
      <4>2. g[i] = f[i]
        BY <3>2, <4>1
      <4>3. g[i + 1] = 2 * g[i] /\ f[i + 1] = 2 * f[i]
        BY <2>1, <2>2, <4>1
      <4> QED
        BY <4>2, <4>3
    <3> HIDE DEF T
    <3> QED
      BY <3>0, <3>1, <3>2, UpTo
  <2>4. f[h] = g[h]
    <3>1. h - 1 \in 0 .. (h - 1) /\ (h - 1) + 1 = h
      OBVIOUS
    <3> QED
      BY <2>3, <3>1
  <2>5. h + 1 \in 2 .. (h + 1) /\ (h + 1) - 1 = h
    OBVIOUS
  <2>6. f[h + 1] = 2 * f[h]
    BY <2>2, <2>5
  <2> QED
    BY <2>1, <2>2, <2>4, <2>6
<1> QED
  BY <1>1, <1>2

-----------------------------------------------------------------------------
(* Segments one after the other *)

(* An equation that the provers are to keep as it is. *)
Plus(c, a, b) == c = a + b

(* Concatenation, likewise, and what there is to know of it. *)
Cat(s, t) == s \o t

(* The elements of both are elements. *)
LEMMA CatType == ASSUME NEW s \in Seq(Elements), NEW t \in Seq(Elements) PROVE Cat(s, t) \in Seq(Elements)
BY DEF Cat

(* It is as long as both together. *)
LEMMA CatLen ==
    ASSUME NEW s \in Seq(Elements), NEW t \in Seq(Elements)
    PROVE  Len(Cat(s, t)) = Len(s) + Len(t)
BY DEF Cat

(* The first sequence comes first, *)
LEMMA CatLeft ==
    ASSUME NEW s \in Seq(Elements), NEW t \in Seq(Elements), NEW i \in 1 .. Len(s)
    PROVE  Cat(s, t)[i] = s[i]
BY DEF Cat

(* and the second one after it. *)
LEMMA CatRight ==
    ASSUME NEW s \in Seq(Elements), NEW t \in Seq(Elements), NEW i \in 1 .. Len(t)
    PROVE  Cat(s, t)[Len(s) + i] = t[i]
BY DEF Cat

(* The empty sequence adds nothing. *)
LEMMA CatEmpty ==
    ASSUME NEW s \in Seq(Elements)
    PROVE  Cat(s, <<>>) = s /\ Cat(<<>>, s) = s
BY ConcatEmptySeq DEF Cat

(* The order in which segments are put together does not matter. *)
LEMMA CatAssociative ==
    ASSUME NEW s \in Seq(Elements), NEW t \in Seq(Elements), NEW u \in Seq(Elements)
    PROVE  Cat(Cat(s, t), u) = Cat(s, Cat(t, u))
BY ConcatAssociative DEF Cat

(* The segments of a window hold sequences of elements. *)
Arrays(f, start, n) == \A i \in start .. (start + n - 1) : f[i] \in Seq(Elements)

(* The elements of the first segments of a window, by their number. *)
IsJoined(g, f, start, n) ==
    /\ g[0] = <<>>
    /\ \A i \in 1 .. n : g[i] = Cat(g[i - 1], f[start + i - 1])

(* They are determined by the segments. *)
LEMMA JoinedUnique ==
    ASSUME NEW f, NEW start, NEW n \in Nat, NEW g, NEW h, IsJoined(g, f, start, n), IsJoined(h, f, start, n)
    PROVE  g[n] = h[n]
<1> DEFINE T == {i \in 0 .. n : g[i] = h[i]}
<1>1. 0 \in T
  BY DEF IsJoined
<1>2. ASSUME NEW i \in 1 .. n, i - 1 \in T PROVE i \in T
  <2>1. g[i] = Cat(g[i - 1], f[start + i - 1]) /\ h[i] = Cat(h[i - 1], f[start + i - 1])
    BY Zenon DEF IsJoined
  <2>2. g[i - 1] = h[i - 1] /\ i \in 0 .. n
    BY <1>2
  <2>3. g[i] = h[i]
    BY <2>1, <2>2, Zenon
  <2> QED
    BY <2>2, <2>3
<1> HIDE DEF T
<1>3. \A i \in 0 .. n : i \in T
  BY <1>1, <1>2, UpTo
<1> QED
  BY <1>3 DEF T

(* The recursion of Joined defines it. *)
LEMMA JoinedIs ==
    ASSUME NEW f, NEW start \in Nat, NEW n \in Nat, Arrays(f, start, n)
    PROVE  \E g \in [0 .. n -> Seq(Elements)] : IsJoined(g, f, start, n) /\ Joined(f, start, n) = g[n]
<1> DEFINE X == Seq(Elements)
           step == [p \in X \X (1 .. n) |-> Cat(p[1], f[start + p[2] - 1])]
           Eq(F) == F = [i \in 0 .. n |-> IF i = 0 THEN <<>> ELSE Cat(F[i - 1], f[start + i - 1])]
           J == CHOOSE F : Eq(F)
<1>0. <<>> \in X
  OBVIOUS
<1>1. \A i \in 1 .. n : f[start + i - 1] \in X
  <2> SUFFICES ASSUME NEW i \in 1 .. n PROVE f[start + i - 1] \in X
    OBVIOUS
  <2>1. start + i - 1 \in start .. (start + n - 1)
    OBVIOUS
  <2> QED
    BY <2>1 DEF Arrays
<1>2. step \in [X \X (1 .. n) -> X]
  <2>1. ASSUME NEW p \in X \X (1 .. n) PROVE Cat(p[1], f[start + p[2] - 1]) \in X
    <3>1. p[1] \in X /\ p[2] \in 1 .. n
      OBVIOUS
    <3>2. f[start + p[2] - 1] \in X
      BY <1>1, <3>1
    <3> QED
      BY <3>1, <3>2, CatType
  <2> QED
    BY <2>1
<1>3. PICK g \in [0 .. n -> X] : IsRun(g, <<>>, step, n)
  <2> HIDE DEF X, step
  <2> QED
    BY <1>0, <1>2, RunExists
<1>4. ASSUME NEW i \in 1 .. n PROVE g[i] = Cat(g[i - 1], f[start + i - 1])
  <2> HIDE DEF X
  <2>1. g[i] = step[<<g[i - 1], i>>]
    BY <1>3, Zenon DEF IsRun
  <2>2. <<g[i - 1], i>> \in X \X (1 .. n)
    BY <1>3
  <2>3. step[<<g[i - 1], i>>] = Cat(g[i - 1], f[start + i - 1])
    BY <2>2
  <2> QED
    BY <2>1, <2>3, Zenon
<1>5. g[0] = <<>>
  BY <1>3 DEF IsRun
<1> HIDE DEF step, X
<1>6. IsJoined(g, f, start, n)
  BY <1>4, <1>5 DEF IsJoined
<1>7. Eq(g)
  <2>1. g = [i \in 0 .. n |-> g[i]]
    BY <1>3
  <2>2. ASSUME NEW i \in 0 .. n PROVE g[i] = IF i = 0 THEN <<>> ELSE Cat(g[i - 1], f[start + i - 1])
    <3>1. CASE i = 0
      BY <1>5, <3>1, Zenon
    <3>2. CASE i # 0
      <4>1. i \in 1 .. n
        BY <3>2
      <4> QED
        BY <1>4, <3>2, <4>1, Zenon
    <3> QED
      BY <3>1, <3>2
  <2> QED
    BY <2>1, <2>2, Zenon
<1> HIDE DEF Eq
<1>8. Eq(J)
  BY <1>7
<1>9. Joined(f, start, n) = J[n]
  BY DEF Joined, Eq, Cat
<1> HIDE DEF J
<1>10. IsJoined(J, f, start, n)
  <2>1. J[0] = <<>>
    BY <1>8 DEF Eq
  <2>2. ASSUME NEW i \in 1 .. n PROVE J[i] = Cat(J[i - 1], f[start + i - 1])
    <3>1. i \in 0 .. n /\ i # 0
      OBVIOUS
    <3> DEFINE V(k) == IF k = 0 THEN <<>> ELSE Cat(J[k - 1], f[start + k - 1])
    <3>2. J = [k \in 0 .. n |-> V(k)]
      BY <1>8 DEF Eq
    <3>3. V(i) = Cat(J[i - 1], f[start + i - 1])
      BY <3>1, Zenon
    <3> HIDE DEF V
    <3>4. J[i] = V(i)
      BY <3>1, <3>2
    <3> QED
      BY <3>3, <3>4, Zenon
  <2> QED
    BY <2>1, <2>2 DEF IsJoined
<1>11. g[n] = J[n]
  BY <1>6, <1>10, JoinedUnique
<1>12. Joined(f, start, n) = g[n]
  BY <1>9, <1>11
<1> QED
  BY <1>3, <1>6, <1>12 DEF X

(* No segments hold nothing; one more adds its elements at the end. *)
LEMMA JoinedNone == ASSUME NEW f, NEW start \in Nat PROVE Joined(f, start, 0) = <<>>
<1>1. Arrays(f, start, 0)
  BY DEF Arrays
<1>2. PICK g \in [0 .. 0 -> Seq(Elements)] : IsJoined(g, f, start, 0) /\ Joined(f, start, 0) = g[0]
  BY <1>1, JoinedIs
<1> QED
  BY <1>2, Zenon DEF IsJoined

(* Together they are a sequence. *)
LEMMA JoinedType ==
    ASSUME NEW f, NEW start \in Nat, NEW n \in Nat, Arrays(f, start, n)
    PROVE  Joined(f, start, n) \in Seq(Elements)
<1>1. PICK g \in [0 .. n -> Seq(Elements)] : IsJoined(g, f, start, n) /\ Joined(f, start, n) = g[n]
  BY JoinedIs
<1> QED
  BY <1>1

(* One segment more adds its elements at the end. *)
LEMMA JoinedMore ==
    ASSUME NEW f, NEW start \in Nat, NEW n \in Nat, NEW m \in Nat, NEW last \in Nat,
           Plus(m, n, 1), Plus(last, start, n), Arrays(f, start, m)
    PROVE  Joined(f, start, m) = Cat(Joined(f, start, n), f[last])
<1>1. Arrays(f, start, n)
  BY DEF Arrays, Plus
<1>2. PICK g \in [0 .. n -> Seq(Elements)] : IsJoined(g, f, start, n) /\ Joined(f, start, n) = g[n]
  BY <1>1, JoinedIs
<1>3. PICK h \in [0 .. m -> Seq(Elements)] : IsJoined(h, f, start, m) /\ Joined(f, start, m) = h[m]
  BY JoinedIs
<1>4. IsJoined(h, f, start, n)
  <2>1. \A i \in 1 .. n : i \in 1 .. m
    BY DEF Plus
  <2> QED
    BY <1>3, <2>1, Zenon DEF IsJoined
<1>5. h[n] = g[n]
  BY <1>2, <1>4, JoinedUnique, ZenonT(60)
<1>6. h[m] = Cat(h[n], f[last])
  <2>1. m \in 1 .. m /\ m - 1 = n /\ start + m - 1 = last
    BY DEF Plus
  <2>2. h[m] = Cat(h[m - 1], f[start + m - 1])
    BY <1>3, <2>1, Zenon DEF IsJoined
  <2> QED
    BY <2>1, <2>2, Zenon
<1> QED
  BY <1>2, <1>3, <1>5, <1>6, Zenon

(* One segment holds its elements. *)
LEMMA JoinedOne ==
    ASSUME NEW f, NEW start \in Nat, f[start] \in Seq(Elements)
    PROVE  Joined(f, start, 1) = f[start]
<1>1. Arrays(f, start, 1) /\ Plus(1, 0, 1) /\ Plus(start, start, 0)
  BY DEF Arrays, Plus
<1>2. Joined(f, start, 1) = Cat(Joined(f, start, 0), f[start])
  BY <1>1, JoinedMore
<1>3. Joined(f, start, 0) = <<>>
  BY JoinedNone
<1>4. Cat(<<>>, f[start]) = f[start]
  BY CatEmpty
<1> QED
  BY <1>2, <1>3, <1>4

(* The segments of a part of a window. *)
LEMMA ArraysWithin ==
    ASSUME NEW f, NEW p \in Nat, NEW m \in Nat, NEW q \in Nat, NEW n \in Nat,
           Arrays(f, p, m), p <= q, q + n <= p + m
    PROVE  Arrays(f, q, n)
BY DEF Arrays

(* Two windows next to each other. *)
LEMMA JoinedSplit ==
    ASSUME NEW f, NEW start \in Nat, NEW m \in Nat, NEW n \in Nat,
           NEW middle \in Nat, NEW all \in Nat, Plus(middle, start, m), Plus(all, m, n), Arrays(f, start, all)
    PROVE  Joined(f, start, all) = Cat(Joined(f, start, m), Joined(f, middle, n))
<1>1. Arrays(f, start, m) /\ Arrays(f, middle, n)
  BY DEF Arrays, Plus
<1>2. Joined(f, start, m) \in Seq(Elements)
  BY <1>1, JoinedType
<1> DEFINE T == {k \in 0 .. n : Joined(f, start, m + k) = Cat(Joined(f, start, m), Joined(f, middle, k))}
<1>4. 0 \in T
  <2>1. Joined(f, middle, 0) = <<>>
    BY JoinedNone
  <2>2. Cat(Joined(f, start, m), <<>>) = Joined(f, start, m)
    BY <1>2, CatEmpty
  <2>3. m + 0 = m /\ 0 \in 0 .. n
    OBVIOUS
  <2> QED
    BY <2>1, <2>2, <2>3
<1>5. ASSUME NEW k \in 1 .. n, k - 1 \in T PROVE k \in T
  <2>1. PICK j \in Nat, last \in Nat, b \in Nat, a \in Nat :
           Plus(k, j, 1) /\ Plus(last, middle, j) /\ Plus(b, m, k) /\ Plus(a, m, j)
    <3>1. k - 1 \in Nat
      OBVIOUS
    <3>2. Plus(k, k - 1, 1) /\ Plus(middle + (k - 1), middle, k - 1) /\ Plus(m + k, m, k) /\ Plus(m + (k - 1), m, k - 1)
      BY DEF Plus
    <3> QED
      BY <3>1, <3>2
  <2>2. Arrays(f, start, b) /\ Arrays(f, middle, j) /\ Arrays(f, middle, k) /\ f[last] \in Seq(Elements)
    BY <1>1, <2>1 DEF Arrays, Plus
  <2>3. Joined(f, start, b) = Cat(Joined(f, start, a), f[last])
    <3>1. Plus(b, a, 1) /\ Plus(last, start, a)
      BY <2>1 DEF Plus
    <3> QED
      BY <2>2, <3>1, JoinedMore
  <2>4. Joined(f, middle, k) = Cat(Joined(f, middle, j), f[last])
    <3>1. k \in Nat
      OBVIOUS
    <3> QED
      BY <2>1, <2>2, <3>1, JoinedMore
  <2>5. Joined(f, middle, j) \in Seq(Elements)
    BY <2>2, JoinedType
  <2>6. Joined(f, start, a) = Cat(Joined(f, start, m), Joined(f, middle, j))
    BY <1>5, <2>1 DEF Plus
  <2>7. Cat(Cat(Joined(f, start, m), Joined(f, middle, j)), f[last])
        = Cat(Joined(f, start, m), Cat(Joined(f, middle, j), f[last]))
    BY <1>2, <2>2, <2>5, CatAssociative
  <2>8. Joined(f, start, b) = Cat(Joined(f, start, m), Joined(f, middle, k))
    BY <2>3, <2>4, <2>6, <2>7, Zenon
  <2>9. k \in 0 .. n
    OBVIOUS
  <2>10. b = m + k
    BY <2>1 DEF Plus
  <2> QED
    BY <2>8, <2>9, <2>10, Zenon
<1> HIDE DEF T
<1>6. n \in T
  BY <1>4, <1>5, UpTo
<1> QED
  BY <1>6 DEF T, Plus

(* n segments of f from p on are those of g from q on. *)
SameArrays(f, p, g, q, n) == \A i \in 0 .. (n - 1) : f[p + i] = g[q + i]

(* Only the elements of the segments matter, not where the segments are. *)
LEMMA JoinedSame ==
    ASSUME NEW f, NEW g, NEW p \in Nat, NEW q \in Nat, NEW n \in Nat,
           Arrays(f, p, n), Arrays(g, q, n), SameArrays(f, p, g, q, n)
    PROVE  Joined(f, p, n) = Joined(g, q, n)
<1> DEFINE T == {k \in 0 .. n : Joined(f, p, k) = Joined(g, q, k)}
<1>1. 0 \in T
  <2>1. Joined(f, p, 0) = <<>> /\ Joined(g, q, 0) = <<>> /\ 0 \in 0 .. n
    BY JoinedNone
  <2> QED
    BY <2>1, Zenon
<1>2. ASSUME NEW k \in 1 .. n, k - 1 \in T PROVE k \in T
  <2>1. PICK j \in Nat, a \in Nat, b \in Nat : Plus(k, j, 1) /\ Plus(a, p, j) /\ Plus(b, q, j)
    <3>1. k - 1 \in Nat
      OBVIOUS
    <3>2. Plus(k, k - 1, 1) /\ Plus(p + (k - 1), p, k - 1) /\ Plus(q + (k - 1), q, k - 1)
      BY DEF Plus
    <3> QED
      BY <3>1, <3>2
  <2>2. Arrays(f, p, k) /\ Arrays(g, q, k)
    BY <2>1 DEF Arrays, Plus
  <2>3. k \in Nat /\ j \in 0 .. (n - 1) /\ k \in 0 .. n
    BY <2>1 DEF Plus
  <2>4. Joined(f, p, k) = Cat(Joined(f, p, j), f[a])
    BY <2>1, <2>2, <2>3, JoinedMore
  <2>5. Joined(g, q, k) = Cat(Joined(g, q, j), g[b])
    BY <2>1, <2>2, <2>3, JoinedMore
  <2>6. Joined(f, p, j) = Joined(g, q, j) /\ f[a] = g[b]
    BY <1>2, <2>1, <2>3 DEF Plus, SameArrays
  <2> QED
    BY <2>3, <2>4, <2>5, <2>6, Zenon
<1> HIDE DEF T
<1>3. n \in T
  BY <1>1, <1>2, UpTo
<1> QED
  BY <1>3 DEF T

-----------------------------------------------------------------------------
(* Elements dealt out to segments *)

(* What Before is: the sums of the first sizes. *)
IsBefore(B, sizes, n) ==
    /\ B \in [0 .. n -> Nat] /\ B[0] = 0
    /\ \A i \in 1 .. n : B[i] = B[i - 1] + sizes[i - 1]

(* The recursion of Before defines it. *)
LEMMA BeforeIs ==
    ASSUME NEW n \in Nat, NEW sizes \in [0 .. (n - 1) -> Nat]
    PROVE  IsBefore(Before(sizes, n), sizes, n)
<1> DEFINE step == [p \in Nat \X (1 .. n) |-> p[1] + sizes[p[2] - 1]]
           Eq(F) == F = [s \in 0 .. n |-> IF s = 0 THEN 0 ELSE F[s - 1] + sizes[s - 1]]
           B == Before(sizes, n)
<1>1. step \in [Nat \X (1 .. n) -> Nat]
  <2>1. ASSUME NEW p \in Nat \X (1 .. n) PROVE p[1] + sizes[p[2] - 1] \in Nat
    <3>1. p[1] \in Nat /\ p[2] - 1 \in 0 .. (n - 1)
      OBVIOUS
    <3>2. sizes[p[2] - 1] \in Nat
      BY <3>1
    <3> QED
      BY <3>1, <3>2
  <2> QED
    BY <2>1
<1>2. PICK g \in [0 .. n -> Nat] : IsRun(g, 0, step, n)
  <2> HIDE DEF step
  <2> QED
    BY <1>1, RunExists
<1>3. ASSUME NEW i \in 1 .. n PROVE g[i] = g[i - 1] + sizes[i - 1]
  <2>1. g[i] = step[<<g[i - 1], i>>]
    BY <1>2, Zenon DEF IsRun
  <2>2. <<g[i - 1], i>> \in Nat \X (1 .. n)
    BY <1>2
  <2> QED
    BY <2>1, <2>2
<1>4. Eq(g)
  <2>1. g = [i \in 0 .. n |-> g[i]] /\ g[0] = 0
    BY <1>2 DEF IsRun
  <2>2. ASSUME NEW i \in 0 .. n PROVE g[i] = IF i = 0 THEN 0 ELSE g[i - 1] + sizes[i - 1]
    <3>1. CASE i = 0
      BY <2>1, <3>1, Zenon
    <3>2. CASE i # 0
      <4>1. i \in 1 .. n
        BY <3>2
      <4> QED
        BY <1>3, <3>2, <4>1, Zenon
    <3> QED
      BY <3>1, <3>2
  <2> QED
    BY <2>1, <2>2, Zenon
<1>5. B = CHOOSE F : Eq(F)
  BY DEF Before
<1> HIDE DEF Eq, B
<1>6. Eq(B)
  BY <1>4, <1>5
<1>7. DOMAIN B = 0 .. n /\ B[0] = 0 /\ B = [s \in 0 .. n |-> B[s]]
  BY <1>6 DEF Eq
<1>8. \A i \in 1 .. n : B[i] = B[i - 1] + sizes[i - 1]
  BY <1>6 DEF Eq
<1> DEFINE T == {i \in 0 .. n : B[i] \in Nat}
<1>9. \A i \in 0 .. n : i \in T
  <2>1. 0 \in T
    BY <1>7
  <2>2. ASSUME NEW i \in 1 .. n, i - 1 \in T PROVE i \in T
    BY <1>8, <2>2
  <2> HIDE DEF T
  <2> QED
    BY <2>1, <2>2, UpTo
<1>10. B \in [0 .. n -> Nat]
  BY <1>7, <1>9
<1> QED
  BY <1>7, <1>8, <1>10 DEF IsBefore, B

(* What comes before a segment is no more than what comes before a later one. *)
LEMMA BeforeGrows ==
    ASSUME NEW n \in Nat, NEW sizes \in [0 .. (n - 1) -> Nat], NEW B, IsBefore(B, sizes, n),
           NEW i \in 0 .. n, NEW j \in 0 .. n, i <= j
    PROVE  B[i] <= B[j]
<1> DEFINE T == {k \in 0 .. n : i <= k => B[i] <= B[k]}
<1>1. 0 \in T
  BY DEF IsBefore
<1>2. ASSUME NEW k \in 1 .. n, k - 1 \in T PROVE k \in T
  <2>1. B[k] = B[k - 1] + sizes[k - 1] /\ sizes[k - 1] \in Nat /\ B[k] \in Nat /\ B[k - 1] \in Nat /\ B[i] \in Nat
    BY DEF IsBefore
  <2>2. CASE i = k
    BY <2>1, <2>2
  <2>3. CASE i # k
    BY <1>2, <2>1, <2>3
  <2> QED
    BY <2>2, <2>3
<1> HIDE DEF T
<1>3. j \in T
  BY <1>1, <1>2, UpTo
<1> QED
  BY <1>3 DEF T

(* A part of a sequence: k elements after the first p. *)
Part(L, p, k) == SubSeq(L, p + 1, p + k)

(* Its elements, and their number. *)
LEMMA PartIs ==
    ASSUME NEW L \in Seq(Elements), NEW p \in Nat, NEW k \in Nat, p + k <= Len(L)
    PROVE  /\ Part(L, p, k) \in Seq(Elements) /\ Len(Part(L, p, k)) = k
           /\ \A i \in 1 .. k : Part(L, p, k)[i] = L[p + i]
<1>1. Part(L, p, k) \in Seq(Elements)
  BY DEF Part
<1>2. Len(Part(L, p, k)) = k
  BY DEF Part
<1>3. ASSUME NEW i \in 1 .. k PROVE Part(L, p, k)[i] = L[p + i]
  BY DEF Part
<1> QED
  BY <1>1, <1>2, <1>3

(* A segment gets as many elements as its size, from where the others end. *)
LEMMA DealtAt ==
    ASSUME NEW L \in Seq(Elements), NEW n \in Nat, NEW sizes \in [0 .. (n - 1) -> Nat],
           Len(L) = Before(sizes, n)[n], NEW s \in 0 .. (n - 1)
    PROVE  /\ Dealt(L, sizes, n)[s] \in Seq(Elements)
           /\ Len(Dealt(L, sizes, n)[s]) = sizes[s]
           /\ Before(sizes, n)[s] \in Nat /\ Before(sizes, n)[s] + sizes[s] <= Len(L)
           /\ \A i \in 1 .. sizes[s] : Dealt(L, sizes, n)[s][i] = L[Before(sizes, n)[s] + i]
<1> DEFINE B == Before(sizes, n)
           d == Dealt(L, sizes, n)[s]
<1>1. IsBefore(B, sizes, n)
  BY BeforeIs
<1>2. d = SubSeq(L, B[s] + 1, B[s] + sizes[s])
  BY DEF Dealt
<1> HIDE DEF B, d
<1>3. s + 1 \in 0 .. n /\ s \in 0 .. n /\ n \in 0 .. n /\ s + 1 <= n /\ s + 1 \in 1 .. n /\ (s + 1) - 1 = s
  OBVIOUS
<1>4. B[s] \in Nat /\ B[s + 1] = B[s] + sizes[s] /\ sizes[s] \in Nat
  <2>1. B[s + 1] = B[(s + 1) - 1] + sizes[(s + 1) - 1]
    BY <1>1, <1>3, Zenon DEF IsBefore
  <2>2. B[s] \in Nat /\ sizes[s] \in Nat
    BY <1>1 DEF IsBefore
  <2> QED
    BY <1>3, <2>1, <2>2
<1>5. B[s + 1] <= B[n]
  BY <1>1, <1>3, BeforeGrows
<1>6. B[s] + sizes[s] <= Len(L)
  BY <1>4, <1>5 DEF B
<1> DEFINE p == B[s]
           k == sizes[s]
<1>7. p \in Nat /\ k \in Nat /\ p + k <= Len(L)
  BY <1>4, <1>6
<1>8. d = Part(L, p, k)
  BY <1>2 DEF Part
<1> HIDE DEF p, k
<1>9. d \in Seq(Elements) /\ Len(d) = k /\ \A i \in 1 .. k : d[i] = L[p + i]
  BY <1>7, <1>8, PartIs
<1> QED
  BY <1>4, <1>6, <1>9 DEF B, d, p, k

(* Elements dealt out are the same elements, in the same order. *)
LEMMA JoinedDealt ==
    ASSUME NEW L \in Seq(Elements), NEW n \in Nat, NEW sizes \in [0 .. (n - 1) -> Nat],
           Len(L) = Before(sizes, n)[n]
    PROVE  /\ Arrays(Dealt(L, sizes, n), 0, n)
           /\ Joined(Dealt(L, sizes, n), 0, n) = L
<1> DEFINE B == Before(sizes, n)
           D == Dealt(L, sizes, n)
<1>1. IsBefore(B, sizes, n)
  BY BeforeIs
<1>2. ASSUME NEW s \in 0 .. (n - 1)
      PROVE  /\ D[s] \in Seq(Elements) /\ Len(D[s]) = sizes[s]
             /\ B[s] \in Nat /\ B[s] + sizes[s] <= Len(L)
             /\ \A i \in 1 .. sizes[s] : D[s][i] = L[B[s] + i]
  BY DealtAt
<1> HIDE DEF B, D
<1>3. Arrays(D, 0, n)
  BY <1>2 DEF Arrays
<1> DEFINE T == {k \in 0 .. n : Joined(D, 0, k) \in Seq(Elements) /\ Len(Joined(D, 0, k)) = B[k]
                               /\ \A i \in 1 .. B[k] : Joined(D, 0, k)[i] = L[i]}
<1>4. 0 \in T
  <2>1. Joined(D, 0, 0) = <<>> /\ B[0] = 0
    BY <1>1, JoinedNone DEF IsBefore
  <2>2. <<>> \in Seq(Elements) /\ Len(<<>>) = 0 /\ 0 \in 0 .. n
    OBVIOUS
  <2>3. \A i \in 1 .. B[0] : FALSE
    BY <2>1
  <2> QED
    BY <2>1, <2>2, <2>3, Zenon
<1>5. ASSUME NEW k \in 1 .. n, k - 1 \in T PROVE k \in T
  <2>1. PICK j \in Nat : Plus(k, j, 1) /\ Plus(j, 0, j) /\ j = k - 1
    BY DEF Plus
  <2>2. Arrays(D, 0, k) /\ k \in Nat /\ j \in 0 .. (n - 1) /\ k \in 0 .. n
    BY <1>3, <2>1 DEF Arrays
  <2> DEFINE J == Joined(D, 0, j)
  <2>3. Joined(D, 0, k) = Cat(J, D[j])
    BY <2>1, <2>2, JoinedMore
  <2>4. J \in Seq(Elements) /\ Len(J) = B[j] /\ \A i \in 1 .. B[j] : J[i] = L[i]
    BY <1>5, <2>1
  <2> HIDE DEF J
  <2>5. D[j] \in Seq(Elements) /\ Len(D[j]) = sizes[j] /\ B[j] \in Nat /\ sizes[j] \in Nat
        /\ \A i \in 1 .. sizes[j] : D[j][i] = L[B[j] + i]
    BY <1>2, <2>2
  <2>6. B[k] = B[j] + sizes[j]
    BY <1>1, <2>1 DEF IsBefore
  <2>7. Cat(J, D[j]) \in Seq(Elements) /\ Len(Cat(J, D[j])) = B[k]
    BY <2>4, <2>5, <2>6, CatType, CatLen
  <2>8. ASSUME NEW i \in 1 .. B[k] PROVE Cat(J, D[j])[i] = L[i]
    <3>1. CASE i <= B[j]
      <4>1. i \in 1 .. Len(J) /\ i \in 1 .. B[j]
        BY <2>4, <2>5, <2>6, <3>1
      <4>2. Cat(J, D[j])[i] = J[i]
        BY <2>4, <2>5, <4>1, CatLeft
      <4> QED
        BY <2>4, <4>1, <4>2
    <3>2. CASE i > B[j]
      <4>1. PICK r \in 1 .. sizes[j] : i = B[j] + r
        <5>1. i - B[j] \in 1 .. sizes[j] /\ i = B[j] + (i - B[j])
          BY <2>5, <2>6, <3>2, SMTT(30)
        <5> QED
          BY <5>1
      <4>2. Cat(J, D[j])[Len(J) + r] = D[j][r]
        BY <2>4, <2>5, CatRight, ZenonT(60)
      <4> QED
        BY <2>4, <2>5, <4>1, <4>2
    <3> QED
      BY <2>5, <3>1, <3>2
  <2> QED
    BY <2>2, <2>3, <2>7, <2>8
<1> HIDE DEF T
<1>6. n \in T
  <2>1. \A k \in 1 .. n : k - 1 \in T => k \in T
    BY <1>5
  <2>2. \A k \in 0 .. n : k \in T
    BY <1>4, <2>1, UpTo
  <2> QED
    BY <2>2
<1> DEFINE J == Joined(D, 0, n)
<1>7. J \in Seq(Elements) /\ Len(J) = Len(L) /\ \A i \in 1 .. Len(J) : J[i] = L[i]
  BY <1>6 DEF T, B
<1> HIDE DEF J
<1>8. J = L
  BY <1>7, SeqEqual
<1> QED
  BY <1>3, <1>8 DEF D, J

-----------------------------------------------------------------------------
(* Elements in order *)

(* In order, and no key above or below a given one. *)
Ordered(L) == \A i, j \in DOMAIN L : i <= j => L[i][1] <= L[j][1]
NoneAbove(L, key) == \A i \in DOMAIN L : L[i][1] <= key
NoneBelow(L, key) == \A i \in DOMAIN L : key <= L[i][1]
Below(s, t) == \A i \in DOMAIN s, j \in DOMAIN t : s[i][1] <= t[j][1]

(* The keys are integers. *)
LEMMA KeyType == \A L \in Seq(Elements) : \A i \in DOMAIN L : L[i] \in Elements /\ L[i][1] \in Int
BY PackedMemoryArrayAssumption

(* The first key of elements in order is the least. *)
LEMMA FirstIsLeast ==
    ASSUME NEW L \in Seq(Elements), Ordered(L), L # <<>>
    PROVE  NoneBelow(L, L[1][1])
BY DEF Ordered, NoneBelow

(* A position of a concatenation is one of its first or of its second part. *)
LEMMA CatPosition ==
    ASSUME NEW s \in Seq(Elements), NEW t \in Seq(Elements), NEW i \in DOMAIN Cat(s, t)
    PROVE  \/ i \in DOMAIN s /\ Cat(s, t)[i] = s[i]
           \/ \E j \in DOMAIN t : i = Len(s) + j /\ Cat(s, t)[i] = t[j]
<1>1. Len(Cat(s, t)) = Len(s) + Len(t) /\ Cat(s, t) \in Seq(Elements)
  BY CatLen, CatType
<1>2. i \in 1 .. (Len(s) + Len(t)) /\ Len(s) \in Nat /\ Len(t) \in Nat /\ DOMAIN s = 1 .. Len(s) /\ DOMAIN t = 1 .. Len(t)
  BY <1>1
<1>3. CASE i <= Len(s)
  <2>1. i \in 1 .. Len(s)
    BY <1>2, <1>3
  <2> QED
    BY <1>2, <2>1, CatLeft
<1>4. CASE i > Len(s)
  <2>1. PICK j \in 1 .. Len(t) : i = Len(s) + j
    <3>1. i - Len(s) \in 1 .. Len(t) /\ i = Len(s) + (i - Len(s))
      BY <1>2, <1>4
    <3> QED
      BY <3>1
  <2>2. Cat(s, t)[Len(s) + j] = t[j]
    BY CatRight
  <2> QED
    BY <1>2, <2>1, <2>2
<1> QED
  BY <1>2, <1>3, <1>4

(* Two sequences in order, one below the other, are in order together. *)
LEMMA OrderedCat ==
    ASSUME NEW s \in Seq(Elements), NEW t \in Seq(Elements), Ordered(s), Ordered(t), Below(s, t)
    PROVE  Ordered(Cat(s, t))
<1> SUFFICES ASSUME NEW i \in DOMAIN Cat(s, t), NEW j \in DOMAIN Cat(s, t), i <= j
             PROVE  Cat(s, t)[i][1] <= Cat(s, t)[j][1]
  BY DEF Ordered
<1>1. (i \in DOMAIN s /\ Cat(s, t)[i] = s[i]) \/ \E k \in DOMAIN t : i = Len(s) + k /\ Cat(s, t)[i] = t[k]
  BY CatPosition
<1>2. (j \in DOMAIN s /\ Cat(s, t)[j] = s[j]) \/ \E k \in DOMAIN t : j = Len(s) + k /\ Cat(s, t)[j] = t[k]
  BY CatPosition
<1>3. CASE i \in DOMAIN s /\ Cat(s, t)[i] = s[i] /\ j \in DOMAIN s /\ Cat(s, t)[j] = s[j]
  BY <1>3 DEF Ordered
<1>4. CASE i \in DOMAIN s /\ Cat(s, t)[i] = s[i] /\ \E k \in DOMAIN t : j = Len(s) + k /\ Cat(s, t)[j] = t[k]
  BY <1>4 DEF Below
<1>5. CASE /\ \E k \in DOMAIN t : i = Len(s) + k /\ Cat(s, t)[i] = t[k]
           /\ \E k \in DOMAIN t : j = Len(s) + k /\ Cat(s, t)[j] = t[k]
  <2>1. PICK k \in DOMAIN t, m \in DOMAIN t :
           i = Len(s) + k /\ Cat(s, t)[i] = t[k] /\ j = Len(s) + m /\ Cat(s, t)[j] = t[m]
    BY <1>5
  <2>2. k <= m
    BY <2>1
  <2> QED
    BY <2>1, <2>2 DEF Ordered
<1>6. CASE j \in DOMAIN s /\ \E k \in DOMAIN t : i = Len(s) + k
  <2>1. FALSE
    BY <1>6
  <2> QED
    BY <2>1
<1> QED
  BY <1>1, <1>2, <1>3, <1>4, <1>5, <1>6

(* And the other way round. *)
LEMMA CatOrdered ==
    ASSUME NEW s \in Seq(Elements), NEW t \in Seq(Elements), Ordered(Cat(s, t))
    PROVE  Ordered(s) /\ Ordered(t) /\ Below(s, t)
<1>1. Len(Cat(s, t)) = Len(s) + Len(t) /\ Cat(s, t) \in Seq(Elements)
  BY CatLen, CatType
<1>2. DOMAIN Cat(s, t) = 1 .. (Len(s) + Len(t)) /\ DOMAIN s = 1 .. Len(s) /\ DOMAIN t = 1 .. Len(t)
      /\ Len(s) \in Nat /\ Len(t) \in Nat
  BY <1>1
<1>3. ASSUME NEW i \in DOMAIN s PROVE i \in DOMAIN Cat(s, t) /\ Cat(s, t)[i] = s[i] /\ i <= Len(s) /\ i \in Nat
  BY <1>2, CatLeft
<1>4. ASSUME NEW i \in DOMAIN t
      PROVE  Len(s) + i \in DOMAIN Cat(s, t) /\ Cat(s, t)[Len(s) + i] = t[i] /\ i \in Nat \ {0}
  BY <1>2, CatRight
<1>5. Ordered(s)
  BY <1>3 DEF Ordered
<1>6. ASSUME NEW i \in DOMAIN t, NEW j \in DOMAIN t, i <= j PROVE t[i][1] <= t[j][1]
  <2>1. Len(s) + i <= Len(s) + j
    BY <1>2, <1>4, <1>6
  <2> QED
    BY <1>4, <2>1 DEF Ordered
<1>7. ASSUME NEW i \in DOMAIN s, NEW j \in DOMAIN t PROVE s[i][1] <= t[j][1]
  <2>1. i <= Len(s) + j
    BY <1>2, <1>3, <1>4
  <2> QED
    BY <1>3, <1>4, <2>1 DEF Ordered
<1> QED
  BY <1>5, <1>6, <1>7 DEF Ordered, Below

(* What bounds both parts bounds the whole. *)
LEMMA CatBounds ==
    ASSUME NEW s \in Seq(Elements), NEW t \in Seq(Elements), NEW key
    PROVE  /\ NoneAbove(Cat(s, t), key) <=> NoneAbove(s, key) /\ NoneAbove(t, key)
           /\ NoneBelow(Cat(s, t), key) <=> NoneBelow(s, key) /\ NoneBelow(t, key)
<1>1. Len(Cat(s, t)) = Len(s) + Len(t) /\ Cat(s, t) \in Seq(Elements)
  BY CatLen, CatType
<1>2. DOMAIN Cat(s, t) = 1 .. (Len(s) + Len(t)) /\ DOMAIN s = 1 .. Len(s) /\ DOMAIN t = 1 .. Len(t)
      /\ Len(s) \in Nat /\ Len(t) \in Nat
  BY <1>1
<1>3. ASSUME NEW i \in DOMAIN s PROVE i \in DOMAIN Cat(s, t) /\ Cat(s, t)[i] = s[i]
  BY <1>2, CatLeft
<1>4. ASSUME NEW i \in DOMAIN t PROVE Len(s) + i \in DOMAIN Cat(s, t) /\ Cat(s, t)[Len(s) + i] = t[i]
  BY <1>2, CatRight, SMTT(30)
<1>5. ASSUME NEW i \in DOMAIN Cat(s, t)
      PROVE  \/ i \in DOMAIN s /\ Cat(s, t)[i] = s[i]
             \/ \E j \in DOMAIN t : i = Len(s) + j /\ Cat(s, t)[i] = t[j]
  BY CatPosition
<1>6. NoneAbove(Cat(s, t), key) => NoneAbove(s, key) /\ NoneAbove(t, key)
  BY <1>3, <1>4 DEF NoneAbove
<1>7. NoneBelow(Cat(s, t), key) => NoneBelow(s, key) /\ NoneBelow(t, key)
  BY <1>3, <1>4 DEF NoneBelow
<1>8. NoneAbove(s, key) /\ NoneAbove(t, key) => NoneAbove(Cat(s, t), key)
  BY <1>5 DEF NoneAbove
<1>9. NoneBelow(s, key) /\ NoneBelow(t, key) => NoneBelow(Cat(s, t), key)
  BY <1>5 DEF NoneBelow
<1> QED
  BY <1>6, <1>7, <1>8, <1>9

-----------------------------------------------------------------------------
(* Insertion and removal of an element *)

(* t is s with e somewhere; t is s with e where its key belongs. *)
Inserted(t, s, e) ==
    \E u, v \in Seq(Elements) : s = Cat(u, v) /\ t = Cat(u, Cat(<<e>>, v))
InsertedInOrder(t, s, e) ==
    \E u, v \in Seq(Elements) :
        s = Cat(u, v) /\ t = Cat(u, Cat(<<e>>, v)) /\ NoneAbove(u, e[1]) /\ NoneBelow(v, e[1])

(* An insertion in order is an insertion. *)
LEMMA InOrderIsInserted ==
    ASSUME NEW t, NEW s, NEW e, InsertedInOrder(t, s, e)
    PROVE  Inserted(t, s, e)
BY DEF Inserted, InsertedInOrder

(* One element. *)
LEMMA Single ==
    ASSUME NEW e \in Elements
    PROVE  /\ <<e>> \in Seq(Elements) /\ Len(<<e>>) = 1 /\ DOMAIN <<e>> = {1} /\ <<e>>[1] = e
           /\ Ordered(<<e>>)
BY PackedMemoryArrayAssumption DEF Ordered

(* An insertion makes a sequence one longer. *)
LEMMA InsertedType ==
    ASSUME NEW t, NEW s, NEW e \in Elements, Inserted(t, s, e)
    PROVE  s \in Seq(Elements) /\ t \in Seq(Elements) /\ Len(t) = Len(s) + 1
<1>1. PICK u \in Seq(Elements), v \in Seq(Elements) : s = Cat(u, v) /\ t = Cat(u, Cat(<<e>>, v))
  BY DEF Inserted
<1>2. <<e>> \in Seq(Elements) /\ Len(<<e>>) = 1
  BY Single
<1>3. Cat(u, v) \in Seq(Elements) /\ Len(Cat(u, v)) = Len(u) + Len(v)
  BY CatType, CatLen
<1>4. Cat(<<e>>, v) \in Seq(Elements) /\ Len(Cat(<<e>>, v)) = 1 + Len(v)
  BY <1>2, CatType, CatLen
<1>5. Cat(u, Cat(<<e>>, v)) \in Seq(Elements) /\ Len(Cat(u, Cat(<<e>>, v))) = Len(u) + (1 + Len(v))
  BY <1>4, CatType, CatLen, ZenonT(60)
<1>6. Len(u) \in Nat /\ Len(v) \in Nat
  OBVIOUS
<1> QED
  BY <1>1, <1>3, <1>5, <1>6

(* An element put where it belongs leaves the others in order. *)
LEMMA InsertedOrdered ==
    ASSUME NEW t, NEW s, NEW e \in Elements, InsertedInOrder(t, s, e), Ordered(s)
    PROVE  Ordered(t)
<1>1. PICK u \in Seq(Elements), v \in Seq(Elements) :
         s = Cat(u, v) /\ t = Cat(u, Cat(<<e>>, v)) /\ NoneAbove(u, e[1]) /\ NoneBelow(v, e[1])
  BY DEF InsertedInOrder
<1>2. Ordered(u) /\ Ordered(v) /\ Below(u, v)
  BY <1>1, CatOrdered
<1>3. <<e>> \in Seq(Elements) /\ DOMAIN <<e>> = {1} /\ <<e>>[1] = e /\ Ordered(<<e>>)
  BY Single
<1> DEFINE w == <<e>>
<1> HIDE DEF w
<1>4. w \in Seq(Elements) /\ DOMAIN w = {1} /\ w[1] = e /\ Ordered(w)
  BY <1>3 DEF w
<1>5. Below(w, v)
  BY <1>1, <1>4 DEF Below, NoneBelow
<1>6. Cat(w, v) \in Seq(Elements) /\ Ordered(Cat(w, v))
  BY <1>2, <1>4, <1>5, OrderedCat, CatType
<1>7. Below(u, Cat(w, v))
  <2> SUFFICES ASSUME NEW i \in DOMAIN u, NEW j \in DOMAIN Cat(w, v) PROVE u[i][1] <= Cat(w, v)[j][1]
    BY DEF Below
  <2>1. \/ j \in DOMAIN w /\ Cat(w, v)[j] = w[j]
        \/ \E k \in DOMAIN v : j = Len(w) + k /\ Cat(w, v)[j] = v[k]
    BY <1>4, CatPosition
  <2>2. CASE j \in DOMAIN w /\ Cat(w, v)[j] = w[j]
    BY <1>1, <1>4, <2>2 DEF NoneAbove
  <2>3. CASE \E k \in DOMAIN v : j = Len(w) + k /\ Cat(w, v)[j] = v[k]
    BY <1>2, <2>3 DEF Below
  <2> QED
    BY <2>1, <2>2, <2>3
<1>8. Ordered(Cat(u, Cat(w, v)))
  BY <1>2, <1>6, <1>7, OrderedCat
<1> QED
  BY <1>1, <1>8 DEF w

(* Without one of them the others are still in order. *)
LEMMA RemovedOrdered ==
    ASSUME NEW t, NEW s, NEW e \in Elements, Inserted(t, s, e), Ordered(t)
    PROVE  Ordered(s)
<1>1. PICK u \in Seq(Elements), v \in Seq(Elements) : s = Cat(u, v) /\ t = Cat(u, Cat(<<e>>, v))
  BY DEF Inserted
<1> DEFINE w == <<e>>
<1>2. w \in Seq(Elements) /\ Len(w) = 1
  BY Single
<1> HIDE DEF w
<1>3. Cat(w, v) \in Seq(Elements) /\ Len(Cat(w, v)) = 1 + Len(v)
  BY <1>2, CatType, CatLen
<1>4. Ordered(u) /\ Ordered(Cat(w, v)) /\ Below(u, Cat(w, v))
  BY <1>1, <1>3, CatOrdered DEF w
<1>5. Ordered(v)
  BY <1>2, <1>4, CatOrdered
<1>6. Below(u, v)
  <2> SUFFICES ASSUME NEW i \in DOMAIN u, NEW j \in DOMAIN v PROVE u[i][1] <= v[j][1]
    BY DEF Below
  <2>1. j \in 1 .. Len(v) /\ Len(v) \in Nat
    OBVIOUS
  <2>2. Cat(w, v)[Len(w) + j] = v[j]
    BY <1>2, <2>1, CatRight
  <2>3. Len(w) + j \in DOMAIN Cat(w, v)
    BY <1>2, <1>3, <2>1
  <2> QED
    BY <1>4, <2>2, <2>3 DEF Below
<1> QED
  BY <1>1, <1>4, <1>5, <1>6, OrderedCat

(* An insertion between two other parts is an insertion into the whole. *)
LEMMA InsertedBetween ==
    ASSUME NEW a \in Seq(Elements), NEW z \in Seq(Elements), NEW t, NEW s, NEW e \in Elements, Inserted(t, s, e)
    PROVE  Inserted(Cat(a, Cat(t, z)), Cat(a, Cat(s, z)), e)
<1>1. PICK u \in Seq(Elements), v \in Seq(Elements) : s = Cat(u, v) /\ t = Cat(u, Cat(<<e>>, v))
  BY DEF Inserted
<1> DEFINE w == <<e>>
<1>2. w \in Seq(Elements)
  BY Single
<1> HIDE DEF w
<1>3. Cat(a, u) \in Seq(Elements) /\ Cat(v, z) \in Seq(Elements) /\ Cat(w, v) \in Seq(Elements)
  BY <1>2, CatType
<1>4. Cat(a, Cat(Cat(u, v), z)) = Cat(Cat(a, u), Cat(v, z))
  <2>1. Cat(Cat(u, v), z) = Cat(u, Cat(v, z))
    BY CatAssociative
  <2>2. Cat(a, Cat(u, Cat(v, z))) = Cat(Cat(a, u), Cat(v, z))
    BY <1>3, CatAssociative
  <2> QED
    BY <2>1, <2>2
<1>5. Cat(a, Cat(Cat(u, Cat(w, v)), z)) = Cat(Cat(a, u), Cat(w, Cat(v, z)))
  <2>1. Cat(Cat(u, Cat(w, v)), z) = Cat(u, Cat(Cat(w, v), z))
    BY <1>3, CatAssociative
  <2>2. Cat(Cat(w, v), z) = Cat(w, Cat(v, z)) /\ Cat(w, Cat(v, z)) \in Seq(Elements)
    BY <1>2, <1>3, CatAssociative, CatType
  <2>3. Cat(a, Cat(u, Cat(w, Cat(v, z)))) = Cat(Cat(a, u), Cat(w, Cat(v, z)))
    BY <2>2, CatAssociative
  <2> QED
    BY <2>1, <2>2, <2>3
<1> QED
  BY <1>1, <1>3, <1>4, <1>5 DEF Inserted, w

(* And it keeps the order when the element belongs between them. *)
LEMMA InOrderBetween ==
    ASSUME NEW a \in Seq(Elements), NEW z \in Seq(Elements), NEW t, NEW s, NEW e \in Elements,
           InsertedInOrder(t, s, e), NoneAbove(a, e[1]), NoneBelow(z, e[1])
    PROVE  InsertedInOrder(Cat(a, Cat(t, z)), Cat(a, Cat(s, z)), e)
<1>1. PICK u \in Seq(Elements), v \in Seq(Elements) :
         s = Cat(u, v) /\ t = Cat(u, Cat(<<e>>, v)) /\ NoneAbove(u, e[1]) /\ NoneBelow(v, e[1])
  BY DEF InsertedInOrder
<1> DEFINE w == <<e>>
<1>2. w \in Seq(Elements)
  BY Single
<1> HIDE DEF w
<1>3. Cat(a, u) \in Seq(Elements) /\ Cat(v, z) \in Seq(Elements) /\ Cat(w, v) \in Seq(Elements)
  BY <1>2, CatType
<1>4. Cat(a, Cat(Cat(u, v), z)) = Cat(Cat(a, u), Cat(v, z))
  <2>1. Cat(Cat(u, v), z) = Cat(u, Cat(v, z))
    BY CatAssociative
  <2>2. Cat(a, Cat(u, Cat(v, z))) = Cat(Cat(a, u), Cat(v, z))
    BY <1>3, CatAssociative
  <2> QED
    BY <2>1, <2>2
<1>5. Cat(a, Cat(Cat(u, Cat(w, v)), z)) = Cat(Cat(a, u), Cat(w, Cat(v, z)))
  <2>1. Cat(Cat(u, Cat(w, v)), z) = Cat(u, Cat(Cat(w, v), z))
    BY <1>3, CatAssociative
  <2>2. Cat(Cat(w, v), z) = Cat(w, Cat(v, z)) /\ Cat(w, Cat(v, z)) \in Seq(Elements)
    BY <1>2, <1>3, CatAssociative, CatType
  <2>3. Cat(a, Cat(u, Cat(w, Cat(v, z)))) = Cat(Cat(a, u), Cat(w, Cat(v, z)))
    BY <2>2, CatAssociative
  <2> QED
    BY <2>1, <2>2, <2>3
<1>6. NoneAbove(Cat(a, u), e[1]) /\ NoneBelow(Cat(v, z), e[1])
  BY <1>1, CatBounds
<1> QED
  BY <1>1, <1>3, <1>4, <1>5, <1>6 DEF InsertedInOrder, w

(* A sequence is its first elements and the others. *)
LEMMA PartsJoin ==
    ASSUME NEW L \in Seq(Elements), NEW p \in Nat, NEW k \in Nat, p + k = Len(L)
    PROVE  /\ Part(L, 0, p) \in Seq(Elements) /\ Part(L, p, k) \in Seq(Elements)
           /\ L = Cat(Part(L, 0, p), Part(L, p, k))
<1> DEFINE u == Part(L, 0, p)
           v == Part(L, p, k)
<1>1. u \in Seq(Elements) /\ Len(u) = p /\ \A i \in 1 .. p : u[i] = L[i]
  <2>1. 0 + p <= Len(L)
    OBVIOUS
  <2>2. u \in Seq(Elements) /\ Len(u) = p /\ \A i \in 1 .. p : u[i] = L[0 + i]
    BY <2>1, PartIs
  <2> QED
    BY <2>2
<1>2. v \in Seq(Elements) /\ Len(v) = k /\ \A i \in 1 .. k : v[i] = L[p + i]
  <2>1. p + k <= Len(L)
    OBVIOUS
  <2> QED
    BY <2>1, PartIs
<1> HIDE DEF u, v
<1>3. Cat(u, v) \in Seq(Elements) /\ Len(Cat(u, v)) = Len(L)
  BY <1>1, <1>2, CatType, CatLen
<1>4. ASSUME NEW i \in 1 .. Len(L) PROVE Cat(u, v)[i] = L[i]
  <2>1. i \in DOMAIN Cat(u, v)
    BY <1>3
  <2>2. \/ i \in DOMAIN u /\ Cat(u, v)[i] = u[i]
        \/ \E j \in DOMAIN v : i = Len(u) + j /\ Cat(u, v)[i] = v[j]
    BY <1>1, <1>2, <2>1, CatPosition
  <2>3. DOMAIN u = 1 .. p /\ DOMAIN v = 1 .. k
    BY <1>1, <1>2
  <2>4. CASE i \in DOMAIN u /\ Cat(u, v)[i] = u[i]
    BY <1>1, <2>3, <2>4
  <2>5. CASE \E j \in DOMAIN v : i = Len(u) + j /\ Cat(u, v)[i] = v[j]
    BY <1>1, <1>2, <2>3, <2>5
  <2> QED
    BY <2>2, <2>4, <2>5
<1>5. L = Cat(u, v)
  BY <1>3, <1>4, SeqEqual
<1> QED
  BY <1>1, <1>2, <1>5 DEF u, v

(* InsertAt and RemoveAt in these terms. *)
LEMMA InsertAtIs ==
    ASSUME NEW L \in Seq(Elements), NEW e \in Elements, NEW i \in 1 .. (Len(L) + 1)
    PROVE  InsertAt(L, i, e) = Cat(Part(L, 0, i - 1), Cat(<<e>>, Part(L, i - 1, Len(L) - (i - 1))))
<1>1. i - 1 \in Nat /\ Len(L) - (i - 1) \in Nat /\ (i - 1) + (Len(L) - (i - 1)) = Len(L)
  OBVIOUS
<1> DEFINE p == i - 1
           k == Len(L) - (i - 1)
<1>2. p \in Nat /\ k \in Nat /\ p + k = Len(L)
  BY <1>1
<1>3. Part(L, 0, p) = SubSeq(L, 1, i - 1) /\ Part(L, p, k) = SubSeq(L, i, Len(L))
  BY DEF Part
<1> HIDE DEF p, k
<1>4. Part(L, 0, p) \in Seq(Elements) /\ Part(L, p, k) \in Seq(Elements)
  BY <1>2, PartsJoin
<1>5. InsertAt(L, i, e) = Cat(Cat(Part(L, 0, p), <<e>>), Part(L, p, k))
  BY <1>3 DEF InsertAt, Cat
<1>6. <<e>> \in Seq(Elements)
  BY Single
<1>7. Cat(Cat(Part(L, 0, p), <<e>>), Part(L, p, k)) = Cat(Part(L, 0, p), Cat(<<e>>, Part(L, p, k)))
  <2> DEFINE w == <<e>>
  <2> HIDE DEF w
  <2>1. w \in Seq(Elements)
    BY <1>6 DEF w
  <2>2. Cat(Cat(Part(L, 0, p), w), Part(L, p, k)) = Cat(Part(L, 0, p), Cat(w, Part(L, p, k)))
    BY <1>4, <2>1, CatAssociative
  <2> QED
    BY <2>2 DEF w
<1> QED
  BY <1>5, <1>7 DEF p, k

(* ::remove shifts what follows the element removed: putting it back gives the segment it was. *)
LEMMA RemoveAtIs ==
    ASSUME NEW L \in Seq(Elements), NEW i \in DOMAIN L
    PROVE  /\ Inserted(L, RemoveAt(L, i), L[i])
           /\ i > 1 => RemoveAt(L, i)[1] = L[1]
           /\ i = 1 /\ Len(L) > 1 => RemoveAt(L, i)[1] = L[2]
<1>1. i \in 1 .. Len(L) /\ Len(L) \in Nat
  OBVIOUS
<1> DEFINE p == i - 1
           k == Len(L) - i
           m == Len(L) - (i - 1)
<1>2. p \in Nat /\ k \in Nat /\ m \in Nat /\ p + m = Len(L) /\ i + k = Len(L) /\ m = k + 1 /\ i = p + 1
  <2> DEFINE n == Len(L)
  <2>1. n \in Nat /\ i \in 1 .. n
    BY <1>1
  <2> HIDE DEF n
  <2>2. i - 1 \in Nat /\ n - i \in Nat /\ n - (i - 1) \in Nat
    BY <2>1
  <2>3. (i - 1) + (n - (i - 1)) = n /\ i + (n - i) = n /\ n - (i - 1) = (n - i) + 1 /\ i = (i - 1) + 1
    BY <2>1
  <2> QED
    BY <2>2, <2>3 DEF n
<1>3. Part(L, 0, p) = SubSeq(L, 1, i - 1) /\ Part(L, i, k) = SubSeq(L, i + 1, Len(L))
  BY <1>1, SMTT(30) DEF Part
<1> HIDE DEF p, k, m
<1> DEFINE u == Part(L, 0, p)
           v == Part(L, i, k)
           w == Part(L, p, m)
           x == <<L[i]>>
<1>4. u \in Seq(Elements) /\ w \in Seq(Elements) /\ L = Cat(u, w)
  BY <1>2, PartsJoin
<1>5. u \in Seq(Elements) /\ Len(u) = p /\ \A j \in 1 .. p : u[j] = L[j]
  <2>1. 0 + p <= Len(L)
    BY <1>1, <1>2
  <2>2. \A j \in 1 .. p : u[j] = L[0 + j]
    BY <1>2, <2>1, PartIs
  <2>3. Len(u) = p
    BY <1>2, <2>1, PartIs
  <2> QED
    BY <1>4, <2>2, <2>3
<1>6. v \in Seq(Elements) /\ Len(v) = k /\ \A j \in 1 .. k : v[j] = L[i + j]
  <2>1. i + k <= Len(L) /\ i \in Nat
    BY <1>1, <1>2
  <2> QED
    BY <1>2, <2>1, PartIs
<1>7. Len(w) = m /\ \A j \in 1 .. m : w[j] = L[p + j]
  <2>1. p + m <= Len(L)
    BY <1>1, <1>2
  <2>2. \A j \in 1 .. m : w[j] = L[p + j]
    BY <1>2, <2>1, PartIs
  <2>3. Len(w) = m
    BY <1>2, <2>1, PartIs
  <2> QED
    BY <2>2, <2>3
<1>8. L[i] \in Elements
  OBVIOUS
<1>9. x \in Seq(Elements) /\ Len(x) = 1 /\ x[1] = L[i]
  BY <1>8, Single
<1>10. RemoveAt(L, i) = Cat(u, v)
  BY <1>3 DEF RemoveAt, Cat
<1> HIDE DEF u, v, w, x
<1>11. w = Cat(x, v)
  <2>1. Cat(x, v) \in Seq(Elements) /\ Len(Cat(x, v)) = 1 + k
    BY <1>6, <1>9, CatType, CatLen
  <2>2. ASSUME NEW j \in 1 .. Len(w) PROVE Cat(x, v)[j] = w[j]
    <3>1. j \in DOMAIN Cat(x, v) /\ j \in 1 .. m
      BY <1>2, <1>7, <2>1
    <3>2. \/ j \in DOMAIN x /\ Cat(x, v)[j] = x[j]
          \/ \E r \in DOMAIN v : j = Len(x) + r /\ Cat(x, v)[j] = v[r]
      BY <1>6, <1>9, <3>1, CatPosition
    <3>3. w[j] = L[p + j]
      BY <1>7, <3>1
    <3>4. CASE j \in DOMAIN x /\ Cat(x, v)[j] = x[j]
      <4>1. j = 1 /\ p + j = i
        BY <1>2, <1>9, <3>4
      <4> QED
        BY <1>9, <3>3, <3>4, <4>1
    <3>5. CASE \E r \in DOMAIN v : j = Len(x) + r /\ Cat(x, v)[j] = v[r]
      <4>1. PICK r \in DOMAIN v : j = Len(x) + r /\ Cat(x, v)[j] = v[r]
        BY <3>5
      <4>2. r \in 1 .. k /\ p + j = i + r
        BY <1>2, <1>6, <1>9, <4>1
      <4>3. v[r] = L[i + r]
        BY <1>6, <4>2
      <4> QED
        BY <3>3, <4>1, <4>2, <4>3
    <3> QED
      BY <3>2, <3>4, <3>5
  <2>3. Len(w) = Len(Cat(x, v))
    BY <1>2, <1>7, <2>1
  <2> QED
    BY <1>4, <2>1, <2>2, <2>3, SeqEqual
<1>12. Inserted(L, RemoveAt(L, i), L[i])
  BY <1>4, <1>6, <1>10, <1>11 DEF Inserted, x
<1>13. i > 1 => RemoveAt(L, i)[1] = L[1]
  <2> SUFFICES ASSUME i > 1 PROVE RemoveAt(L, i)[1] = L[1]
    OBVIOUS
  <2>1. 1 \in 1 .. Len(u) /\ 1 \in 1 .. p
    BY <1>2, <1>5
  <2>2. Cat(u, v)[1] = u[1]
    BY <1>5, <1>6, <2>1, CatLeft
  <2> QED
    BY <1>5, <1>10, <2>1, <2>2
<1>14. i = 1 /\ Len(L) > 1 => RemoveAt(L, i)[1] = L[2]
  <2> SUFFICES ASSUME i = 1, Len(L) > 1 PROVE RemoveAt(L, i)[1] = L[2]
    OBVIOUS
  <2>1. 1 \in 1 .. Len(v) /\ 1 \in 1 .. k /\ Len(u) = 0
    BY <1>2, <1>5, <1>6
  <2>2. Cat(u, v)[Len(u) + 1] = v[1]
    BY <1>5, <1>6, <2>1, CatRight, ZenonT(60)
  <2>3. Len(u) + 1 = 1 /\ i + 1 = 2
    BY <2>1
  <2>4. v[1] = L[i + 1]
    BY <1>6, <2>1
  <2> QED
    BY <1>10, <2>2, <2>3, <2>4
<1> QED
  BY <1>12, <1>13, <1>14

(* The least and the greatest of some numbers. *)
LEMMA MinIs ==
    ASSUME NEW T \in SUBSET Nat, T # {}
    PROVE  Min(T) \in T /\ \A k \in T : Min(T) <= k
<1>1. \E m \in T : \A k \in T : m <= k
  BY LeastNatural
<1> QED
  BY <1>1, Zenon DEF Min

(* The greatest of the numbers up to a bound. *)
LEMMA MaxIs ==
    ASSUME NEW n \in Nat, NEW T \in SUBSET (0 .. n), T # {}
    PROVE  Max(T) \in T /\ \A k \in T : Max(T) >= k
<1> DEFINE U == {n - k : k \in T}
<1>0. \A k \in T : k \in 0 .. n /\ n - k \in Nat
  OBVIOUS
<1>1. U \in SUBSET Nat /\ U # {}
  BY <1>0
<1>2. PICK u \in U : \A k \in U : u <= k
  BY <1>1, LeastNatural
<1>3. PICK m \in T : u = n - m
  BY <1>2
<1>4. ASSUME NEW k \in T PROVE m >= k
  <2>1. n - m <= n - k
    BY <1>2, <1>3
  <2>2. m \in 0 .. n /\ k \in 0 .. n
    BY <1>0, <1>3
  <2> QED
    BY <2>1, <2>2
<1>5. \E x \in T : \A k \in T : x >= k
  BY <1>4
<1> QED
  BY <1>5, Zenon DEF Max

(* No key before the position is greater, and none from it on is smaller. *)
AtPosition(L, i, e) ==
    /\ i \in 1 .. (Len(L) + 1)
    /\ \A j \in DOMAIN L : j < i => L[j][1] <= e[1]
    /\ \A j \in DOMAIN L : i <= j => e[1] <= L[j][1]

(* An element put there is in order; the first element is that one or the one there was. *)
LEMMA InsertAtInOrder ==
    ASSUME NEW L \in Seq(Elements), NEW e \in Elements, NEW i, AtPosition(L, i, e)
    PROVE  /\ InsertedInOrder(InsertAt(L, i, e), L, e)
           /\ i = 1 => InsertAt(L, i, e)[1] = e
           /\ i > 1 => InsertAt(L, i, e)[1] = L[1]
<1> DEFINE n == Len(L)
<1> USE DEF AtPosition
<1>1. n \in Nat /\ i \in 1 .. (n + 1) /\ DOMAIN L = 1 .. n
  OBVIOUS
<1>2. InsertAt(L, i, e) = Cat(Part(L, 0, i - 1), Cat(<<e>>, Part(L, i - 1, n - (i - 1))))
  BY InsertAtIs
<1>3. PICK p \in Nat, k \in Nat : p = i - 1 /\ k = n - (i - 1) /\ p + k = n /\ i = p + 1
  <2> HIDE DEF n
  <2>1. i - 1 \in Nat /\ n - (i - 1) \in Nat /\ (i - 1) + (n - (i - 1)) = n /\ i = (i - 1) + 1
    BY <1>1
  <2> QED
    BY <2>1
<1> DEFINE u == Part(L, 0, p)
           v == Part(L, p, k)
           w == <<e>>
<1>4. InsertAt(L, i, e) = Cat(u, Cat(w, v))
  BY <1>2, <1>3
<1>5. u \in Seq(Elements) /\ v \in Seq(Elements) /\ L = Cat(u, v)
  BY <1>3, PartsJoin
<1>6. Len(u) = p /\ \A j \in 1 .. p : u[j] = L[j]
  <2>1. 0 + p <= Len(L)
    BY <1>1, <1>3
  <2>2. \A j \in 1 .. p : u[j] = L[0 + j]
    BY <2>1, PartIs
  <2>3. Len(u) = p
    BY <2>1, PartIs
  <2> QED
    BY <2>2, <2>3
<1>7. Len(v) = k /\ \A j \in 1 .. k : v[j] = L[p + j]
  <2>1. p + k <= Len(L)
    BY <1>1, <1>3
  <2> QED
    BY <2>1, PartIs
<1>8. w \in Seq(Elements) /\ Len(w) = 1 /\ w[1] = e
  BY Single
<1> HIDE DEF u, v, w, n
<1>9. NoneAbove(u, e[1])
  <2>1. DOMAIN u = 1 .. p
    BY <1>5, <1>6
  <2>2. \A j \in 1 .. p : j \in DOMAIN L /\ j < i
    BY <1>1, <1>3
  <2> QED
    BY <1>6, <2>1, <2>2 DEF NoneAbove
<1>10. NoneBelow(v, e[1])
  <2>1. DOMAIN v = 1 .. k
    BY <1>5, <1>7
  <2>2. \A j \in 1 .. k : p + j \in DOMAIN L /\ i <= p + j
    BY <1>1, <1>3
  <2> QED
    BY <1>7, <2>1, <2>2 DEF NoneBelow
<1>11. InsertedInOrder(InsertAt(L, i, e), L, e)
  BY <1>4, <1>5, <1>9, <1>10 DEF InsertedInOrder, w
<1>12. Cat(w, v) \in Seq(Elements)
  BY <1>5, <1>8, CatType
<1>13. i = 1 => InsertAt(L, i, e)[1] = e
  <2> SUFFICES ASSUME i = 1 PROVE InsertAt(L, i, e)[1] = e
    OBVIOUS
  <2>1. u = <<>>
    BY <1>3, <1>5, <1>6
  <2>2. Cat(u, Cat(w, v)) = Cat(w, v)
    BY <1>12, <2>1, CatEmpty
  <2>3. Cat(w, v)[1] = w[1]
    <3>1. 1 \in 1 .. Len(w)
      BY <1>8
    <3> QED
      BY <1>5, <1>8, <3>1, CatLeft
  <2> QED
    BY <1>4, <1>8, <2>2, <2>3, Zenon
<1>14. i > 1 => InsertAt(L, i, e)[1] = L[1]
  <2> SUFFICES ASSUME i > 1 PROVE InsertAt(L, i, e)[1] = L[1]
    OBVIOUS
  <2>1. 1 \in 1 .. Len(u) /\ 1 \in 1 .. p
    BY <1>3, <1>6
  <2>2. Cat(u, Cat(w, v))[1] = u[1]
    BY <1>5, <1>12, <2>1, CatLeft
  <2> QED
    BY <1>4, <1>6, <2>1, <2>2, Zenon
<1> QED
  BY <1>11, <1>13, <1>14

(* The scan from the left finds such a position. *)
LEMMA PositionBeforeIs ==
    ASSUME NEW L \in Seq(Elements), NEW e \in Elements, Ordered(L)
    PROVE  AtPosition(L, PositionBefore(L, e[1]), e)
<1> DEFINE n == Len(L)
           T == {i \in DOMAIN L : L[i][1] >= e[1]} \union {n + 1}
           p == PositionBefore(L, e[1])
<1>1. n \in Nat /\ DOMAIN L = 1 .. n
  OBVIOUS
<1>2. \A j \in DOMAIN L : L[j][1] \in Int
  BY KeyType
<1>3. e[1] \in Int
  BY PackedMemoryArrayAssumption
<1>4. p = Min(T)
  BY DEF PositionBefore
<1> HIDE DEF p, n
<1>5. T \in SUBSET Nat /\ T # {} /\ T \in SUBSET (1 .. (n + 1))
  BY <1>1
<1>6. Min(T) \in T /\ \A j \in T : Min(T) <= j
  <2> HIDE DEF T
  <2> QED
    BY <1>5, MinIs
<1>7. p \in T /\ p \in 1 .. (n + 1) /\ \A j \in T : p <= j
  BY <1>4, <1>5, <1>6
<1>8. ASSUME NEW j \in DOMAIN L, j < p PROVE L[j][1] <= e[1]
  <2>1. j \notin T
    BY <1>1, <1>7, <1>8
  <2> QED
    BY <1>2, <1>3, <2>1
<1>9. ASSUME NEW j \in DOMAIN L, p <= j PROVE e[1] <= L[j][1]
  <2>1. p \in DOMAIN L /\ L[p][1] >= e[1]
    BY <1>1, <1>7, <1>9
  <2>2. L[p][1] <= L[j][1]
    BY <1>9, <2>1 DEF Ordered
  <2> QED
    BY <1>2, <1>3, <2>1, <2>2
<1> QED
  BY <1>7, <1>8, <1>9 DEF p, n, AtPosition

(* And so does the scan from the right. *)
LEMMA PositionAfterIs ==
    ASSUME NEW L \in Seq(Elements), NEW e \in Elements, Ordered(L)
    PROVE  AtPosition(L, PositionAfter(L, e[1]), e)
<1> DEFINE n == Len(L)
           T == {i \in DOMAIN L : L[i][1] <= e[1]} \union {0}
           m == Max(T)
<1>1. n \in Nat /\ DOMAIN L = 1 .. n
  OBVIOUS
<1>2. \A j \in DOMAIN L : L[j][1] \in Int
  BY KeyType
<1>3. e[1] \in Int
  BY PackedMemoryArrayAssumption
<1>4. PositionAfter(L, e[1]) = m + 1
  BY DEF PositionAfter
<1> HIDE DEF n
<1>5. T \in SUBSET (0 .. n) /\ T # {}
  BY <1>1
<1>6. m \in T /\ \A j \in T : m >= j
  <2> HIDE DEF T
  <2> QED
    BY <1>1, <1>5, MaxIs
<1> HIDE DEF m
<1>7. m \in 0 .. n
  BY <1>5, <1>6
<1>8. ASSUME NEW j \in DOMAIN L, j < m + 1 PROVE L[j][1] <= e[1]
  <2>1. j <= m /\ m \in DOMAIN L /\ L[m][1] <= e[1]
    BY <1>1, <1>6, <1>7, <1>8
  <2>2. L[j][1] <= L[m][1]
    BY <2>1 DEF Ordered
  <2> QED
    BY <1>2, <1>3, <2>1, <2>2
<1>9. ASSUME NEW j \in DOMAIN L, m + 1 <= j PROVE e[1] <= L[j][1]
  <2>1. j \notin T
    BY <1>1, <1>6, <1>7, <1>9
  <2> QED
    BY <1>2, <1>3, <2>1
<1>10. m + 1 \in 1 .. (n + 1)
  BY <1>1, <1>7
<1> QED
  BY <1>4, <1>8, <1>9, <1>10 DEF n, AtPosition

-----------------------------------------------------------------------------
(* A part of the segments between two others *)

(* The segments from b on: k of them up to a, then l up to z, then r. *)
Around(b, k, a, l, z, r, m, n) == Plus(a, b, k) /\ Plus(z, a, l) /\ Plus(m, l, r) /\ Plus(n, k, m)

(* Their elements come in the same three parts. *)
LEMMA JoinedAround ==
    ASSUME NEW f, NEW b \in Nat, NEW k \in Nat, NEW a \in Nat, NEW l \in Nat, NEW z \in Nat,
           NEW r \in Nat, NEW m \in Nat, NEW n \in Nat, Around(b, k, a, l, z, r, m, n), Arrays(f, b, n)
    PROVE  /\ Arrays(f, b, k) /\ Arrays(f, a, l) /\ Arrays(f, z, r)
           /\ Joined(f, b, k) \in Seq(Elements) /\ Joined(f, a, l) \in Seq(Elements)
           /\ Joined(f, z, r) \in Seq(Elements)
           /\ Joined(f, b, n) = Cat(Joined(f, b, k), Cat(Joined(f, a, l), Joined(f, z, r)))
<1>1. Plus(a, b, k) /\ Plus(z, a, l) /\ Plus(m, l, r) /\ Plus(n, k, m)
  BY DEF Around
<1>2. Arrays(f, b, k) /\ Arrays(f, a, l) /\ Arrays(f, z, r) /\ Arrays(f, a, m)
  <2>1. a = b + k /\ z = a + l /\ m = l + r /\ n = k + m
    BY <1>1 DEF Plus
  <2>2. b <= b /\ b + k <= b + n /\ b <= a /\ a + l <= b + n /\ b <= z /\ z + r <= b + n /\ a + m <= b + n
    BY <2>1
  <2> QED
    BY <2>2, ArraysWithin
<1>3. Joined(f, b, k) \in Seq(Elements) /\ Joined(f, a, l) \in Seq(Elements) /\ Joined(f, z, r) \in Seq(Elements)
  BY <1>2, JoinedType
<1>4. Joined(f, b, n) = Cat(Joined(f, b, k), Joined(f, a, m))
  BY <1>1, JoinedSplit
<1>5. Joined(f, a, m) = Cat(Joined(f, a, l), Joined(f, z, r))
  BY <1>1, <1>2, JoinedSplit
<1> QED
  BY <1>2, <1>3, <1>4, <1>5

(* A segment between the others. *)
LEMMA AroundOne ==
    ASSUME NEW f, NEW b \in Nat, NEW n \in Nat, Arrays(f, b, n), NEW s \in b .. (b + n - 1)
    PROVE  /\ f[s] \in Seq(Elements)
           /\ \E A, Z \in Seq(Elements) : Joined(f, b, n) = Cat(A, Cat(f[s], Z))
<1>1. f[s] \in Seq(Elements)
  BY DEF Arrays
<1>2. PICK k \in Nat, z \in Nat, r \in Nat, m \in Nat : Around(b, k, s, 1, z, r, m, n)
  <2>1. s - b \in Nat /\ s + 1 \in Nat /\ n - (s - b) - 1 \in Nat /\ n - (s - b) \in Nat
    OBVIOUS
  <2>2. Around(b, s - b, s, 1, s + 1, n - (s - b) - 1, n - (s - b), n)
    BY <2>1 DEF Around, Plus
  <2> QED
    BY <2>1, <2>2
<1>3. s \in Nat
  OBVIOUS
<1>4. /\ Joined(f, b, k) \in Seq(Elements) /\ Joined(f, z, r) \in Seq(Elements)
      /\ Joined(f, b, n) = Cat(Joined(f, b, k), Cat(Joined(f, s, 1), Joined(f, z, r)))
  BY <1>2, <1>3, JoinedAround
<1>5. Joined(f, s, 1) = f[s]
  BY <1>1, <1>3, JoinedOne
<1> QED
  BY <1>1, <1>4, <1>5

(* What holds of the elements of several segments holds of those of each one. *)
LEMMA SegmentOf ==
    ASSUME NEW f, NEW b \in Nat, NEW n \in Nat, Arrays(f, b, n), NEW s \in b .. (b + n - 1), NEW key
    PROVE  /\ Ordered(Joined(f, b, n)) => Ordered(f[s])
           /\ NoneAbove(Joined(f, b, n), key) => NoneAbove(f[s], key)
           /\ NoneBelow(Joined(f, b, n), key) => NoneBelow(f[s], key)
<1>1. PICK A \in Seq(Elements), Z \in Seq(Elements) : Joined(f, b, n) = Cat(A, Cat(f[s], Z))
  BY AroundOne
<1>2. f[s] \in Seq(Elements)
  BY AroundOne
<1>3. Cat(f[s], Z) \in Seq(Elements)
  BY <1>2, CatType
<1>4. Ordered(Cat(A, Cat(f[s], Z))) => Ordered(Cat(f[s], Z))
  BY <1>3, CatOrdered
<1>5. Ordered(Cat(f[s], Z)) => Ordered(f[s])
  BY <1>2, CatOrdered
<1>6. NoneAbove(Cat(A, Cat(f[s], Z)), key) => NoneAbove(Cat(f[s], Z), key)
  BY <1>3, CatBounds
<1>7. NoneAbove(Cat(f[s], Z), key) => NoneAbove(f[s], key)
  BY <1>2, CatBounds
<1>8. NoneBelow(Cat(A, Cat(f[s], Z)), key) => NoneBelow(Cat(f[s], Z), key)
  BY <1>3, CatBounds
<1>9. NoneBelow(Cat(f[s], Z), key) => NoneBelow(f[s], key)
  BY <1>2, CatBounds
<1> QED
  BY <1>1, <1>4, <1>5, <1>6, <1>7, <1>8, <1>9

(* The first element of several segments is that of the first, when it has one. *)
LEMMA JoinedHead ==
    ASSUME NEW f, NEW b \in Nat, NEW n \in Nat \ {0}, Arrays(f, b, n), f[b] # <<>>
    PROVE  Joined(f, b, n) # <<>> /\ Joined(f, b, n)[1] = f[b][1]
<1>1. PICK z \in Nat, r \in Nat : Plus(z, b, 1) /\ Plus(n, 1, r)
  <2>1. b + 1 \in Nat /\ n - 1 \in Nat /\ Plus(b + 1, b, 1) /\ Plus(n, 1, n - 1)
    BY DEF Plus
  <2> QED
    BY <2>1
<1>2. f[b] \in Seq(Elements)
  BY DEF Arrays
<1>3. Joined(f, b, n) = Cat(Joined(f, b, 1), Joined(f, z, r))
  BY <1>1, JoinedSplit
<1>4. Joined(f, b, 1) = f[b]
  BY <1>2, JoinedOne
<1>5. Arrays(f, z, r)
  BY <1>1 DEF Arrays, Plus
<1> DEFINE R == Joined(f, z, r)
<1>6. R \in Seq(Elements)
  BY <1>5, JoinedType
<1> HIDE DEF R
<1>7. Cat(f[b], R)[1] = f[b][1] /\ Len(Cat(f[b], R)) # 0
  <2>1. 1 \in 1 .. Len(f[b]) /\ Len(f[b]) \in Nat \ {0} /\ Len(R) \in Nat
    BY <1>2, <1>6, EmptySeq
  <2>2. Len(Cat(f[b], R)) = Len(f[b]) + Len(R)
    BY <1>2, <1>6, CatLen
  <2>3. Cat(f[b], R)[1] = f[b][1]
    BY <1>2, <1>6, <2>1, CatLeft
  <2> QED
    BY <2>1, <2>2, <2>3
<1>8. Joined(f, b, n) = Cat(f[b], R)
  BY <1>3, <1>4 DEF R
<1>9. Len(<<>>) = 0
  OBVIOUS
<1> QED
  BY <1>7, <1>8, <1>9, Zenon

(* Segments with no more than c elements each. *)
LEMMA JoinedAtMost ==
    ASSUME NEW f, NEW b \in Nat, NEW n \in Nat, Arrays(f, b, n), NEW c \in Nat,
           \A s \in b .. (b + n - 1) : Len(f[s]) <= c
    PROVE  Len(Joined(f, b, n)) <= n * c
<1> DEFINE T == {k \in 0 .. n : Joined(f, b, k) \in Seq(Elements) /\ Len(Joined(f, b, k)) <= k * c}
<1>1. 0 \in T
  <2>1. Joined(f, b, 0) = <<>>
    BY JoinedNone
  <2>2. <<>> \in Seq(Elements) /\ Len(<<>>) <= 0 * c /\ 0 \in 0 .. n
    OBVIOUS
  <2> QED
    BY <2>1, <2>2, Zenon
<1>2. ASSUME NEW k \in 1 .. n, k - 1 \in T PROVE k \in T
  <2>1. PICK j \in Nat, last \in Nat : Plus(k, j, 1) /\ Plus(last, b, j) /\ j = k - 1 /\ last \in b .. (b + n - 1)
    <3>1. k - 1 \in Nat /\ b + (k - 1) \in Nat /\ Plus(k, k - 1, 1) /\ Plus(b + (k - 1), b, k - 1)
          /\ b + (k - 1) \in b .. (b + n - 1)
      BY DEF Plus
    <3> QED
      BY <3>1
  <2>2. Arrays(f, b, k) /\ k \in Nat /\ f[last] \in Seq(Elements)
    BY <2>1 DEF Arrays
  <2>3. Joined(f, b, k) = Cat(Joined(f, b, j), f[last])
    BY <2>1, <2>2, JoinedMore
  <2> DEFINE J == Joined(f, b, j)
             x == Len(J)
             y == Len(f[last])
  <2>4. J \in Seq(Elements) /\ x <= j * c
    BY <1>2, <2>1
  <2>5. Cat(J, f[last]) \in Seq(Elements) /\ Len(Cat(J, f[last])) = x + y
    <3> HIDE DEF J
    <3> QED
      BY <2>2, <2>4, CatType, CatLen
  <2>6. x \in Nat /\ y \in Nat /\ y <= c
    BY <2>1, <2>2, <2>4
  <2>7. k * c = j * c + c /\ j * c \in Nat /\ k * c \in Nat
    BY <2>1
  <2>8. x + y <= k * c
    <3> HIDE DEF x, y
    <3> DEFINE jc == j * c
               kc == k * c
    <3> HIDE DEF jc, kc
    <3>1. jc \in Nat /\ kc \in Nat /\ kc = jc + c /\ x <= jc
      BY <2>4, <2>7 DEF jc, kc
    <3>2. x + y <= kc
      BY <2>6, <3>1
    <3> QED
      BY <3>2 DEF kc
  <2>9. k \in 0 .. n
    OBVIOUS
  <2> QED
    BY <2>3, <2>5, <2>8, <2>9, Zenon
<1> HIDE DEF T
<1>3. n \in T
  <2>1. \A k \in 1 .. n : k - 1 \in T => k \in T
    BY <1>2
  <2>2. \A k \in 0 .. n : k \in T
    BY <1>1, <2>1, UpTo
  <2> QED
    BY <2>2
<1> QED
  BY <1>3 DEF T

(* f and g have the same segments before a and from z on. *)
SameOutside(f, g, a, z, n) == \A i \in 0 .. (n - 1) : (i < a \/ z <= i) => g[i] = f[i]

(* Segments changed only between the others: those keep their elements. *)
LEMMA JoinedChanged ==
    ASSUME NEW f, NEW g, NEW a \in Nat, NEW l \in Nat, NEW z \in Nat, NEW r \in Nat, NEW m \in Nat, NEW n \in Nat,
           Around(0, a, a, l, z, r, m, n), Arrays(f, 0, n), Arrays(g, 0, n),
           SameOutside(f, g, a, z, n)
    PROVE  Joined(g, 0, n) = Cat(Joined(f, 0, a), Cat(Joined(g, a, l), Joined(f, z, r)))
<1>1. Joined(g, 0, n) = Cat(Joined(g, 0, a), Cat(Joined(g, a, l), Joined(g, z, r)))
  BY JoinedAround
<1>2. Arrays(g, 0, a) /\ Arrays(g, z, r)
  BY JoinedAround
<1>3. Arrays(f, 0, a) /\ Arrays(f, z, r)
  BY JoinedAround
<1>4. z = a + l /\ n = a + (l + r)
  BY DEF Around, Plus
<1>5. Joined(g, 0, a) = Joined(f, 0, a)
  <2>1. SameArrays(g, 0, f, 0, a)
    BY <1>4 DEF SameArrays, SameOutside
  <2> QED
    BY <1>2, <1>3, <2>1, JoinedSame
<1>6. Joined(g, z, r) = Joined(f, z, r)
  <2>1. ASSUME NEW i \in 0 .. (r - 1) PROVE g[z + i] = f[z + i]
    <3>1. z + i \in 0 .. (n - 1) /\ z <= z + i
      BY <1>4
    <3> QED
      BY <3>1 DEF SameOutside
  <2>2. SameArrays(g, z, f, z, r)
    BY <2>1 DEF SameArrays
  <2> QED
    BY <1>2, <1>3, <2>2, JoinedSame
<1> QED
  BY <1>1, <1>5, <1>6

-----------------------------------------------------------------------------
(* Heights and windows *)

(* A higher window is some number of lower ones, at least two. *)
LEMMA WindowMultiple ==
    ASSUME NEW h \in Nat \ {0}, NEW k \in Nat \ {0}, h <= k
    PROVE  \E q \in Nat \ {0} : WindowLength(k) = WindowLength(h) * q /\ (h < k => q >= 2)
<1> DEFINE T == {j \in 0 .. (k - h) : \E q \in Nat \ {0} : WindowLength(h + j) = WindowLength(h) * q /\ (j > 0 => q >= 2)}
<1>1. k - h \in Nat /\ WindowLength(h) \in Nat \ {0}
  BY WindowLengths
<1>2. 0 \in T
  <2>1. h + 0 = h /\ WindowLength(h) = WindowLength(h) * 1 /\ 0 \in 0 .. (k - h)
    BY <1>1
  <2>2. WindowLength(h + 0) = WindowLength(h) * 1
    BY <2>1, Zenon
  <2> QED
    BY <2>1, <2>2
<1>3. ASSUME NEW j \in 1 .. (k - h), j - 1 \in T PROVE j \in T
  <2>1. PICK q \in Nat \ {0} : WindowLength(h + (j - 1)) = WindowLength(h) * q
    BY <1>3
  <2>2. h + (j - 1) \in Nat \ {0} /\ (h + (j - 1)) + 1 = h + j /\ j \in 0 .. (k - h)
    OBVIOUS
  <2>3. WindowLength((h + (j - 1)) + 1) = 2 * WindowLength(h + (j - 1))
    BY <2>2, WindowLengths, Zenon
  <2>4. WindowLength(h + j) = 2 * (WindowLength(h) * q)
    BY <2>1, <2>2, <2>3, Zenon
  <2>5. 2 * (WindowLength(h) * q) = WindowLength(h) * (2 * q) /\ 2 * q \in Nat \ {0} /\ 2 * q >= 2
    BY <1>1
  <2>6. WindowLength(h + j) = WindowLength(h) * (2 * q)
    BY <2>4, <2>5, Zenon
  <2> QED
    BY <2>2, <2>5, <2>6
<1> HIDE DEF T
<1>4. k - h \in T
  <2>1. \A j \in 1 .. (k - h) : j - 1 \in T => j \in T
    BY <1>3
  <2>2. \A j \in 0 .. (k - h) : j \in T
    BY <1>1, <1>2, <2>1, UpTo
  <2> QED
    BY <1>1, <2>2
<1>5. PICK q \in Nat \ {0} : WindowLength(h + (k - h)) = WindowLength(h) * q /\ (k - h > 0 => q >= 2)
  BY <1>4 DEF T
<1>6. h + (k - h) = k /\ (h < k => k - h > 0)
  OBVIOUS
<1>7. WindowLength(k) = WindowLength(h) * q
  BY <1>5, <1>6, Zenon
<1> QED
  BY <1>5, <1>6, <1>7

(* So it is longer. *)
LEMMA WindowLonger ==
    ASSUME NEW h \in Nat \ {0}, NEW k \in Nat \ {0}, h < k
    PROVE  WindowLength(h) < WindowLength(k)
<1> DEFINE a == WindowLength(h)
           b == WindowLength(k)
<1>1. PICK q \in Nat \ {0} : b = a * q /\ q >= 2
  BY WindowMultiple
<1>2. a \in Nat \ {0} /\ b \in Nat \ {0}
  BY WindowLengths
<1> HIDE DEF a, b
<1>3. a < b
  BY <1>1, <1>2
<1> QED
  BY <1>3 DEF a, b

(* A window has at least as many segments as it has levels. *)
LEMMA WindowAtLeastHeight ==
    ASSUME NEW h \in Nat \ {0}
    PROVE  h <= WindowLength(h)
<1> DEFINE T == {j \in 0 .. (h - 1) : j + 1 <= WindowLength(j + 1)}
<1>1. 0 \in T
  BY WindowLengths
<1>2. ASSUME NEW j \in 1 .. (h - 1), j - 1 \in T PROVE j \in T
  <2>1. j \in Nat \ {0} /\ (j - 1) + 1 = j /\ j \in 0 .. (h - 1)
    OBVIOUS
  <2>2. j <= WindowLength(j)
    BY <1>2, <2>1
  <2>3. WindowLength(j) \in Nat \ {0} /\ WindowLength(j + 1) = 2 * WindowLength(j)
    BY <2>1, WindowLengths
  <2>4. j + 1 <= WindowLength(j + 1)
    BY <2>1, <2>2, <2>3
  <2> QED
    BY <2>1, <2>4
<1> HIDE DEF T
<1>3. h - 1 \in T
  <2>0. h - 1 \in Nat
    OBVIOUS
  <2>1. \A j \in 1 .. (h - 1) : j - 1 \in T => j \in T
    BY <1>2
  <2>2. \A j \in 0 .. (h - 1) : j \in T
    BY <1>1, <2>0, <2>1, UpTo
  <2> QED
    BY <2>0, <2>2
<1>4. (h - 1) + 1 = h
  OBVIOUS
<1> QED
  BY <1>3, <1>4 DEF T

(* The number of segments of a tree gives its height. *)
LEMMA HeightOfLength ==
    ASSUME NEW h \in Nat \ {0}
    PROVE  HeightOf(WindowLength(h)) = h /\ Cardinality(0 .. (WindowLength(h) - 1)) = WindowLength(h)
<1> DEFINE n == WindowLength(h)
<1>1. n \in Nat \ {0} /\ h \in 1 .. n
  BY WindowLengths, WindowAtLeastHeight
<1>2. ASSUME NEW k \in 1 .. n, WindowLength(k) = n PROVE k = h
  <2>1. k \in Nat \ {0}
    BY <1>1
  <2>2. ~ (k < h)
    BY <1>1, <1>2, <2>1, WindowLonger
  <2>3. ~ (h < k)
    BY <1>1, <1>2, <2>1, WindowLonger
  <2> QED
    BY <2>1, <2>2, <2>3
<1>3. HeightOf(n) = h
  <2>1. WindowLength(h) = n
    OBVIOUS
  <2> HIDE DEF n
  <2> QED
    BY <1>1, <1>2, <2>1 DEF HeightOf
<1>4. Cardinality(0 .. (n - 1)) = n
  <2> HIDE DEF n
  <2>1. 0 \in Int /\ n - 1 \in Int
    BY <1>1
  <2>2. Cardinality(0 .. (n - 1)) = IF 0 > n - 1 THEN 0 ELSE (n - 1) - 0 + 1
    BY <2>1, FS_Interval
  <2> QED
    BY <1>1, <2>2
<1> QED
  BY <1>3, <1>4

(* The window of a segment is inside the array, and the segment inside the window. *)
LEMMA WindowInside ==
    ASSUME NEW L \in Nat \ {0}, NEW q \in Nat \ {0}, NEW n \in Nat, n = L * q, NEW o \in 0 .. (n - 1),
           NEW start, start = (o \div L) * L
    PROVE  start \in Nat /\ start <= o /\ o < start + L /\ start + L <= n
<1> DEFINE p == o \div L
<1>1. p \in Nat /\ p * L <= o /\ o < p * L + L
  OBVIOUS
<1> HIDE DEF p
<1>2. p < q
  <2> SUFFICES ASSUME q <= p PROVE FALSE
    BY <1>1
  <2>1. L * q <= p * L
    BY <1>1
  <2> QED
    BY <1>1, <2>1
<1>3. p * L + L <= L * q
  <2>1. (p + 1) * L <= q * L
    BY <1>1, <1>2
  <2> QED
    BY <1>1, <2>1
<1> QED
  BY <1>1, <1>3 DEF p

-----------------------------------------------------------------------------
(* What the index finds *)

(* Every separator is the first key of its segment. *)
Led(f, sep, n) == \A s \in 0 .. (n - 1) : f[s] # <<>> /\ sep[s] = f[s][1][1]

(* The key is not before segment t, nor after it. *)
Finds(t, sep, n, key) ==
    /\ t \in 0 .. (n - 1)
    /\ t > 0 => sep[t] <= key
    /\ t + 1 <= n - 1 => (key < sep[t + 1] \/ (t = 0 /\ key <= sep[0]))

(* What a search relies on. *)
Searchable(f, sep, n) ==
    /\ Arrays(f, 0, n) /\ Ordered(Joined(f, 0, n)) /\ (n = 1 \/ Led(f, sep, n))
    /\ \A s \in 0 .. (n - 1) : sep[s] \in Int

(* In an array of several segments no key before the one found is greater. *)
LEMMA NoneAboveBefore ==
    ASSUME NEW f, NEW sep, NEW n \in Nat \ {0}, Arrays(f, 0, n), Ordered(Joined(f, 0, n)), Led(f, sep, n),
           NEW t \in 1 .. (n - 1)
    PROVE  NoneAbove(Joined(f, 0, t), sep[t])
<1>1. PICK r \in Nat \ {0} : Plus(n, t, r) /\ Plus(t, 0, t)
  <2>1. n - t \in Nat \ {0} /\ Plus(n, t, n - t) /\ Plus(t, 0, t)
    BY DEF Plus
  <2> QED
    BY <2>1
<1>2. t \in Nat /\ r \in Nat
  OBVIOUS
<1> DEFINE A == Joined(f, 0, t)
           B == Joined(f, t, r)
<1>3. Joined(f, 0, n) = Cat(A, B)
  BY <1>1, <1>2, JoinedSplit
<1>4. Arrays(f, 0, t) /\ Arrays(f, t, r)
  BY <1>1 DEF Arrays, Plus
<1>5. A \in Seq(Elements) /\ B \in Seq(Elements)
  BY <1>2, <1>4, JoinedType
<1>6. f[t] # <<>> /\ sep[t] = f[t][1][1]
  BY DEF Led
<1>7. B # <<>> /\ B[1] = f[t][1]
  BY <1>2, <1>4, <1>6, JoinedHead
<1> HIDE DEF A, B
<1>8. Below(A, B)
  BY <1>3, <1>5, CatOrdered
<1>9. 1 \in DOMAIN B
  BY <1>5, <1>7
<1>10. NoneAbove(A, sep[t])
  BY <1>6, <1>7, <1>8, <1>9 DEF Below, NoneAbove
<1> QED
  BY <1>10 DEF A

(* And none from a segment on is smaller than its first. *)
LEMMA NoneBelowFrom ==
    ASSUME NEW f, NEW sep, NEW n \in Nat \ {0}, Arrays(f, 0, n), Ordered(Joined(f, 0, n)), Led(f, sep, n),
           NEW z \in 0 .. (n - 1), NEW r \in Nat \ {0}, Plus(n, z, r)
    PROVE  NoneBelow(Joined(f, z, r), sep[z])
<1>1. z \in Nat /\ r \in Nat /\ Plus(z, 0, z)
  BY DEF Plus
<1> DEFINE A == Joined(f, 0, z)
           B == Joined(f, z, r)
<1>3. Joined(f, 0, n) = Cat(A, B)
  BY <1>1, JoinedSplit
<1>4. Arrays(f, 0, z) /\ Arrays(f, z, r)
  BY <1>1 DEF Arrays, Plus
<1>5. A \in Seq(Elements) /\ B \in Seq(Elements)
  BY <1>1, <1>4, JoinedType
<1>6. f[z] # <<>> /\ sep[z] = f[z][1][1]
  BY DEF Led
<1>7. B # <<>> /\ B[1] = f[z][1]
  BY <1>1, <1>4, <1>6, JoinedHead
<1> HIDE DEF A, B
<1>8. Ordered(B)
  BY <1>3, <1>5, CatOrdered
<1>9. NoneBelow(B, B[1][1])
  BY <1>5, <1>7, <1>8, FirstIsLeast
<1>10. NoneBelow(B, sep[z])
  BY <1>6, <1>7, <1>9
<1> QED
  BY <1>10 DEF B

(* A bound on keys may be moved away from them. *)
LEMMA BoundsMove ==
    ASSUME NEW L \in Seq(Elements), NEW j \in Int, NEW k \in Int, j <= k
    PROVE  (NoneAbove(L, j) => NoneAbove(L, k)) /\ (NoneBelow(L, k) => NoneBelow(L, j))
<1>1. \A i \in DOMAIN L : L[i][1] \in Int
  BY KeyType
<1> QED
  BY <1>1 DEF NoneAbove, NoneBelow

(* The key belongs in the segment found: no greater key is before it, no smaller one after it. *)
LEMMA FindsSplits ==
    ASSUME NEW f, NEW sep, NEW n \in Nat \ {0}, Searchable(f, sep, n),
           NEW key \in Int, NEW t, Finds(t, sep, n, key), NEW z \in Nat, NEW r \in Nat, Plus(z, t, 1), Plus(n, z, r)
    PROVE  NoneAbove(Joined(f, 0, t), key) /\ NoneBelow(Joined(f, z, r), key)
<1> USE DEF Searchable
<1>1. t \in 0 .. (n - 1) /\ z = t + 1 /\ n = z + r
  BY DEF Finds, Plus
<1>2. \A k : NoneAbove(<<>>, k) /\ NoneBelow(<<>>, k)
  BY DEF NoneAbove, NoneBelow
<1>3. NoneAbove(Joined(f, 0, t), key)
  <2>1. CASE t = 0
    <3>1. Joined(f, 0, 0) = <<>>
      BY JoinedNone
    <3> QED
      BY <1>2, <2>1, <3>1, Zenon
  <2>2. CASE t > 0
    <3>1. t \in 1 .. (n - 1) /\ Led(f, sep, n) /\ t \in Nat
      BY <1>1, <2>2
    <3>2. NoneAbove(Joined(f, 0, t), sep[t])
      BY <3>1, NoneAboveBefore
    <3>3. sep[t] <= key /\ sep[t] \in Int
      BY <1>1, <2>2 DEF Finds
    <3>4. Joined(f, 0, t) \in Seq(Elements)
      <4>1. Arrays(f, 0, t)
        BY <1>1 DEF Arrays
      <4> QED
        BY <3>1, <4>1, JoinedType
    <3> QED
      BY <3>2, <3>3, <3>4, BoundsMove
  <2> QED
    BY <1>1, <2>1, <2>2
<1>4. NoneBelow(Joined(f, z, r), key)
  <2>1. CASE r = 0
    <3>1. Joined(f, z, 0) = <<>>
      BY JoinedNone
    <3> QED
      BY <1>2, <2>1, <3>1, Zenon
  <2>2. CASE r # 0
    <3>1. z \in 0 .. (n - 1) /\ Led(f, sep, n) /\ r \in Nat \ {0}
      BY <1>1, <2>2
    <3>2. NoneBelow(Joined(f, z, r), sep[z])
      BY <3>1, NoneBelowFrom
    <3>4. Joined(f, z, r) \in Seq(Elements)
      <4>1. Arrays(f, z, r)
        BY <1>1 DEF Arrays
      <4> QED
        BY <4>1, JoinedType
    <3>5. key < sep[z] \/ (t = 0 /\ key <= sep[0])
      BY <1>1, <3>1 DEF Finds
    <3>6. CASE key < sep[z]
      <4>1. key <= sep[z] /\ sep[z] \in Int
        BY <3>1, <3>6
      <4> QED
        BY <3>2, <3>4, <4>1, BoundsMove
    <3>7. CASE t = 0 /\ key <= sep[0]
      <4>1. NoneBelow(Joined(f, 0, n), sep[0])
        <5>1. Plus(n, 0, n) /\ 0 \in 0 .. (n - 1)
          BY DEF Plus
        <5> QED
          BY <3>1, <5>1, NoneBelowFrom
      <4>2. Joined(f, 0, n) = Cat(Joined(f, 0, z), Joined(f, z, r))
        <5>1. Plus(z, 0, z)
          BY DEF Plus
        <5> QED
          BY <5>1, JoinedSplit
      <4>3. Joined(f, 0, z) \in Seq(Elements)
        <5>1. Arrays(f, 0, z)
          BY <1>1 DEF Arrays
        <5> QED
          BY <5>1, JoinedType
      <4>4. NoneBelow(Joined(f, z, r), sep[0])
        BY <3>4, <4>1, <4>2, <4>3, CatBounds
      <4>5. sep[0] \in Int
        OBVIOUS
      <4> QED
        BY <3>4, <3>7, <4>4, <4>5, BoundsMove
    <3> QED
      BY <3>5, <3>6, <3>7
  <2> QED
    BY <2>1, <2>2
<1> QED
  BY <1>3, <1>4

(* A key that is stored anywhere is in the segment found. *)
LEMMA FindsKey ==
    ASSUME NEW f, NEW sep, NEW n \in Nat \ {0}, Searchable(f, sep, n),
           NEW s \in 0 .. (n - 1), NEW i \in DOMAIN f[s], NEW t, Finds(t, sep, n, f[s][i][1])
    PROVE  \E j \in DOMAIN f[t] : f[t][j][1] = f[s][i][1]
<1> DEFINE key == f[s][i][1]
<1> USE DEF Searchable
<1>1. t \in 0 .. (n - 1) /\ \A k \in 0 .. (n - 1) : f[k] \in Seq(Elements)
  BY DEF Finds, Arrays
<1>2. key \in Int
  BY <1>1, KeyType
<1>3. CASE s = t
  BY <1>3
<1>4. CASE s < t
  <2>1. Led(f, sep, n) /\ t \in 1 .. (n - 1) /\ t \in Nat /\ s \in 0 .. (0 + t - 1)
    BY <1>1, <1>4
  <2>2. NoneAbove(Joined(f, 0, t), sep[t])
    BY <2>1, NoneAboveBefore
  <2>3. NoneAbove(f[s], sep[t])
    <3>1. Arrays(f, 0, t)
      BY <1>1 DEF Arrays
    <3> QED
      BY <2>1, <2>2, <3>1, SegmentOf
  <2>4. key <= sep[t] /\ sep[t] <= key /\ sep[t] \in Int
    BY <1>1, <2>1, <2>3 DEF NoneAbove, Finds
  <2>5. f[t] # <<>> /\ sep[t] = f[t][1][1] /\ 1 \in DOMAIN f[t]
    BY <1>1, <2>1 DEF Led
  <2>6. f[t][1][1] = key
    BY <1>2, <2>4, <2>5
  <2> QED
    BY <2>5, <2>6
<1>5. CASE s > t
  <2> HIDE DEF key
  <2>1. PICK z \in Nat, r \in Nat \ {0} : z = t + 1 /\ Plus(n, z, r) /\ z \in 0 .. (n - 1) /\ s \in z .. (z + r - 1)
    <3>1. t + 1 \in Nat /\ n - (t + 1) \in Nat \ {0} /\ Plus(n, t + 1, n - (t + 1)) /\ t + 1 \in 0 .. (n - 1)
          /\ s \in (t + 1) .. ((t + 1) + (n - (t + 1)) - 1)
      BY <1>1, <1>5 DEF Plus
    <3> QED
      BY <3>1
  <2>2. Led(f, sep, n)
    BY <1>1, <1>5
  <2>3. NoneBelow(Joined(f, z, r), sep[z])
    BY <2>1, <2>2, NoneBelowFrom
  <2>4. NoneBelow(f[s], sep[z])
    <3>1. Arrays(f, z, r)
      BY <1>1, <2>1 DEF Arrays, Plus
    <3> QED
      BY <2>1, <2>3, <3>1, SegmentOf
  <2>5. sep[z] <= key /\ sep[z] \in Int
    BY <2>1, <2>4 DEF NoneBelow, key
  <2>6. t + 1 <= n - 1 /\ (key < sep[z] \/ (t = 0 /\ key <= sep[0]))
    BY <1>1, <2>1 DEF Finds, key
  <2>7. t = 0 /\ key <= sep[0]
    BY <1>2, <2>5, <2>6
  <2>8. NoneBelow(f[s], sep[0])
    <3>1. Plus(n, 0, n) /\ 0 \in 0 .. (n - 1) /\ s \in 0 .. (0 + n - 1)
      BY DEF Plus
    <3>2. NoneBelow(Joined(f, 0, n), sep[0])
      BY <2>2, <3>1, NoneBelowFrom
    <3> QED
      BY <3>1, <3>2, SegmentOf
  <2>9. f[0] # <<>> /\ sep[0] = f[0][1][1] /\ 1 \in DOMAIN f[0]
    BY <1>1, <2>2 DEF Led
  <2>10. sep[0] <= key /\ sep[0] \in Int
    BY <2>8 DEF NoneBelow, key
  <2>11. f[0][1][1] = key
    BY <1>2, <2>7, <2>9, <2>10
  <2> QED
    BY <2>7, <2>9, <2>11 DEF key
<1> QED
  BY <1>1, <1>3, <1>4, <1>5

-----------------------------------------------------------------------------
(* The inductive invariant *)

(* n segments f with separators sep hold card elements: in order, no segment with more *)
(* than it has room for, and the separator of one that is not empty is its first key.  *)
ArraySound(f, sep, card, n) ==
    /\ f \in [0 .. (n - 1) -> Seq(Elements)]
    /\ \A s \in 0 .. (n - 1) : Len(f[s]) <= SegmentCapacity
    /\ sep \in [0 .. (n - 1) -> Keys \union {MinKey, MaxKey}]
    /\ \A s \in 0 .. (n - 1) : f[s] # <<>> => sep[s] = f[s][1][1]
    /\ Ordered(Joined(f, 0, n))
    /\ card \in 0 .. MaxElements
    /\ card = Len(Joined(f, 0, n))

Calls(n) ==
    {Idle} \union [op : {"insert"}, element : Elements, resized : BOOLEAN]
           \union [op : {"remove"}, segment : 0 .. (n - 1)]

(* Only the segment that a removal left empty, and has yet to rebalance, is empty when  *)
(* there are several; an insertion has room, and after a resize the array is at most    *)
(* half full.                                                                           *)
CallSound(f, card, c, n) ==
    /\ c \in Calls(n)
    /\ n > 1 => \A s \in 0 .. (n - 1) : f[s] = <<>> => c.op = "remove" /\ c.segment = s
    /\ c.op = "remove" => n > 1
    /\ c.op = "insert" => card < MaxElements
    /\ c.op = "insert" /\ c.resized => n > 1 /\ 2 * card <= n * SegmentCapacity

Values == {e[2] : e \in Elements} \union {-1}

Sound(h, n) ==
    /\ n = WindowLength(h)
    /\ ArraySound(segments, separators, m_cardinality, n)
    /\ CallSound(segments, m_cardinality, call, n)
    /\ ret \in Values

IndInv == \E h \in 1 .. MaxHeight, n \in Nat \ {0} : Sound(h, n)

(* The number of segments and the height that the state has. *)
LEMMA SegmentsOf ==
    ASSUME NEW h \in 1 .. MaxHeight, NEW n \in Nat \ {0}, Sound(h, n)
    PROVE  /\ DOMAIN segments = 0 .. (n - 1) /\ m_number_segments = n /\ m_height = h
           /\ Arrays(segments, 0, n) /\ AllElements = Joined(segments, 0, n)
           /\ AllElements \in Seq(Elements)
<1>1. h \in Nat \ {0} /\ n = WindowLength(h)
  BY PackedMemoryArrayAssumption DEF Sound
<1>2. segments \in [0 .. (n - 1) -> Seq(Elements)]
  BY DEF Sound, ArraySound
<1>3. DOMAIN segments = 0 .. (n - 1) /\ Arrays(segments, 0, n)
  BY <1>2 DEF Arrays
<1>4. Cardinality(0 .. (n - 1)) = n /\ HeightOf(n) = h
  BY <1>1, HeightOfLength
<1>5. m_number_segments = n
  BY <1>3, <1>4 DEF m_number_segments
<1>6. m_height = h
  BY <1>4, <1>5 DEF m_height
<1>7. AllElements = Joined(segments, 0, n)
  BY <1>5 DEF AllElements, Content
<1>8. Joined(segments, 0, n) \in Seq(Elements)
  BY <1>3, JoinedType
<1> QED
  BY <1>3, <1>5, <1>6, <1>7, <1>8

(* The separators are integers, as the keys are. *)
LEMMA SeparatorType ==
    ASSUME NEW f, NEW sep, NEW card, NEW n \in Nat \ {0}, ArraySound(f, sep, card, n)
    PROVE  \A s \in 0 .. (n - 1) : sep[s] \in Int
<1>1. Keys \union {MinKey, MaxKey} \in SUBSET Int
  BY PackedMemoryArrayAssumption DEF Keys
<1> QED
  BY <1>1 DEF ArraySound

(* Outside a removal the separators of several segments are their first keys. *)
LEMMA LedOutsideRemove ==
    ASSUME NEW f, NEW sep, NEW card, NEW c, NEW n \in Nat \ {0}, ArraySound(f, sep, card, n),
           CallSound(f, card, c, n), c.op # "remove"
    PROVE  n = 1 \/ Led(f, sep, n)
BY DEF ArraySound, CallSound, Led

(* index_find gives the segment where a key belongs. *)
LEMMA IndexFinds ==
    ASSUME NEW h \in 1 .. MaxHeight, NEW n \in Nat \ {0}, Sound(h, n), NEW key \in Int
    PROVE  Finds(index_find(key), separators, n, key)
<1> DEFINE greater == {s \in 1 .. (n - 1) : key < separators[s]}
           t == index_find(key)
<1>1. DOMAIN segments = 0 .. (n - 1) /\ m_number_segments = n
  BY SegmentsOf
<1>2. \A s \in 0 .. (n - 1) : separators[s] \in Int
  BY SeparatorType DEF Sound
<1>3. {s \in DOMAIN segments \ {0} : key < separators[s]} = greater
  BY <1>1
<1>4. t = IF key <= separators[0] THEN 0 ELSE IF greater = {} THEN n - 1 ELSE Min(greater) - 1
  BY <1>1, <1>3, Zenon DEF index_find
<1> HIDE DEF t
<1>5. CASE key <= separators[0]
  <2>1. t = 0
    BY <1>4, <1>5
  <2>2. Finds(t, separators, n, key)
    BY <1>5, <2>1 DEF Finds
  <2> QED
    BY <2>2 DEF t
<1>6. CASE ~ (key <= separators[0]) /\ greater = {}
  <2>1. t = n - 1
    BY <1>4, <1>6
  <2>2. t > 0 => separators[t] <= key
    BY <1>2, <1>6, <2>1
  <2>3. Finds(t, separators, n, key)
    BY <2>1, <2>2 DEF Finds
  <2> QED
    BY <2>3 DEF t
<1>7. CASE ~ (key <= separators[0]) /\ greater # {}
  <2>1. t = Min(greater) - 1
    BY <1>4, <1>7
  <2>2. greater \in SUBSET Nat
    OBVIOUS
  <2>3. Min(greater) \in greater /\ \A k \in greater : Min(greater) <= k
    <3> HIDE DEF greater
    <3> QED
      BY <1>7, <2>2, MinIs
  <2>4. t \in 0 .. (n - 1) /\ t + 1 \in greater /\ t + 1 = Min(greater)
    BY <2>1, <2>3
  <2>5. t > 0 => separators[t] <= key
    <3> SUFFICES ASSUME t > 0 PROVE separators[t] <= key
      OBVIOUS
    <3>1. t \notin greater
      BY <2>3, <2>4
    <3> QED
      BY <1>2, <2>4, <3>1
  <2>6. Finds(t, separators, n, key)
    BY <2>4, <2>5 DEF Finds
  <2> QED
    BY <2>6 DEF t
<1> QED
  BY <1>5, <1>6, <1>7 DEF t

(* FirstWith gives a position with the key when there is one. *)
LEMMA FirstWithIs ==
    ASSUME NEW s, segments[s] \in Seq(Elements), NEW key
    PROVE  /\ FirstWith(s, key) # 0 => FirstWith(s, key) \in DOMAIN segments[s]
                                       /\ segments[s][FirstWith(s, key)][1] = key
           /\ FirstWith(s, key) = 0 => \A i \in DOMAIN segments[s] : segments[s][i][1] # key
<1> DEFINE found == {i \in DOMAIN segments[s] : segments[s][i][1] = key}
<1>1. FirstWith(s, key) = IF found = {} THEN 0 ELSE Min(found)
  BY DEF FirstWith
<1>2. found \in SUBSET Nat /\ 0 \notin found
  OBVIOUS
<1>3. found # {} => Min(found) \in found
  <2> HIDE DEF found
  <2> QED
    BY <1>2, MinIs
<1>4. CASE found = {}
  BY <1>1, <1>4
<1>5. CASE found # {}
  <2>1. FirstWith(s, key) = Min(found) /\ Min(found) \in found
    BY <1>1, <1>3, <1>5
  <2> QED
    BY <1>2, <2>1
<1> QED
  BY <1>4, <1>5

(* The inductive invariant has the types. *)
LEMMA IndInvType == IndInv => TypeInv
<1> SUFFICES ASSUME IndInv PROVE TypeInv
  OBVIOUS
<1>1. PICK h \in 1 .. MaxHeight, n \in Nat \ {0} : Sound(h, n)
  BY DEF IndInv
<1>2. DOMAIN segments = 0 .. (n - 1) /\ n = WindowLength(h)
  BY <1>1, SegmentsOf DEF Sound
<1>3. ArraySound(segments, separators, m_cardinality, n) /\ CallSound(segments, m_cardinality, call, n) /\ ret \in Values
  BY <1>1 DEF Sound
<1>4. segments \in [0 .. (WindowLength(h) - 1) -> Seq(Elements)]
  BY <1>2, <1>3 DEF ArraySound
<1>5. \A s \in DOMAIN segments : Len(segments[s]) <= SegmentCapacity
  BY <1>2, <1>3 DEF ArraySound
<1>6. separators \in [DOMAIN segments -> Keys \union {MinKey, MaxKey}] /\ m_cardinality \in 0 .. MaxElements
  BY <1>2, <1>3 DEF ArraySound
<1>7. call \in {Idle} \union [op : {"insert"}, element : Elements, resized : BOOLEAN]
                      \union [op : {"remove"}, segment : DOMAIN segments]
  BY <1>2, <1>3 DEF CallSound, Calls
<1> QED
  BY <1>3, <1>4, <1>5, <1>6, <1>7, Zenon DEF TypeInv, Values

(* A key of an element is looked for where it is stored. *)
LEMMA SearchIs ==
    ASSUME NEW h \in 1 .. MaxHeight, NEW n \in Nat \ {0}, Sound(h, n), call = Idle, NEW key \in Int
    PROVE  /\ index_find(key) \in 0 .. (n - 1)
           /\ FirstWith(index_find(key), key) = 0 =>
                 \A s \in 0 .. (n - 1) : \A i \in DOMAIN segments[s] : segments[s][i][1] # key
           /\ FirstWith(index_find(key), key) # 0 =>
                 /\ FirstWith(index_find(key), key) \in DOMAIN segments[index_find(key)]
                 /\ segments[index_find(key)][FirstWith(index_find(key), key)][1] = key
<1> DEFINE t == index_find(key)
<1>1. Finds(t, separators, n, key)
  BY IndexFinds
<1>2. t \in 0 .. (n - 1)
  BY <1>1 DEF Finds
<1>3. ArraySound(segments, separators, m_cardinality, n) /\ CallSound(segments, m_cardinality, call, n)
  BY DEF Sound
<1>4. \A s \in 0 .. (n - 1) : segments[s] \in Seq(Elements)
  BY <1>3 DEF ArraySound
<1>5. call.op # "remove"
  BY DEF Idle
<1>6. n = 1 \/ Led(segments, separators, n)
  BY <1>3, <1>5, LedOutsideRemove
<1>7. Searchable(segments, separators, n)
  BY <1>3, <1>6, SegmentsOf, SeparatorType DEF ArraySound, Searchable
<1> HIDE DEF t
<1>8. ASSUME NEW s \in 0 .. (n - 1), NEW i \in DOMAIN segments[s], segments[s][i][1] = key
      PROVE  \E j \in DOMAIN segments[t] : segments[t][j][1] = key
  <2>1. Finds(t, separators, n, segments[s][i][1])
    BY <1>1, <1>8
  <2>2. \E j \in DOMAIN segments[t] : segments[t][j][1] = segments[s][i][1]
    BY <1>7, <2>1, FindsKey
  <2> QED
    BY <1>8, <2>2
<1>9. segments[t] \in Seq(Elements)
  BY <1>2, <1>4
<1>10. /\ FirstWith(t, key) # 0 => FirstWith(t, key) \in DOMAIN segments[t] /\ segments[t][FirstWith(t, key)][1] = key
       /\ FirstWith(t, key) = 0 => \A i \in DOMAIN segments[t] : segments[t][i][1] # key
  BY <1>9, FirstWithIs
<1> QED
  BY <1>2, <1>8, <1>10 DEF t

(* The inductive invariant implies what every operation relies on when it starts. *)
LEMMA IndInvWellFormed == IndInv => WellFormed
<1> SUFFICES ASSUME IndInv PROVE WellFormed
  OBVIOUS
<1>1. PICK h \in 1 .. MaxHeight, n \in Nat \ {0} : Sound(h, n)
  BY DEF IndInv
<1>2. DOMAIN segments = 0 .. (n - 1) /\ m_number_segments = n /\ AllElements = Joined(segments, 0, n)
  BY <1>1, SegmentsOf
<1>3. ArraySound(segments, separators, m_cardinality, n) /\ CallSound(segments, m_cardinality, call, n)
  BY <1>1 DEF Sound
<1>4. TypeInv
  BY IndInvType
<1>5. ElementsSorted
  BY <1>2, <1>3 DEF ArraySound, ElementsSorted, Ordered
<1>6. CardinalityExact
  BY <1>2, <1>3 DEF ArraySound, CardinalityExact
<1>7. NoEmptySegment
  BY <1>2, <1>3 DEF CallSound, NoEmptySegment, Idle
<1>8. IndexLeadsToKeys
  <2> SUFFICES ASSUME call = Idle, NEW s \in DOMAIN segments, NEW i \in DOMAIN segments[s]
               PROVE  FirstWith(index_find(segments[s][i][1]), segments[s][i][1]) # 0
    BY DEF IndexLeadsToKeys
  <2> DEFINE key == segments[s][i][1]
  <2>1. segments[s] \in Seq(Elements)
    BY <1>2, <1>3 DEF ArraySound
  <2>2. key \in Int /\ s \in 0 .. (n - 1) /\ segments[s][i][1] = key
    BY <1>2, <2>1, KeyType
  <2> HIDE DEF key
  <2>3. FirstWith(index_find(key), key) = 0 =>
           \A r \in 0 .. (n - 1) : \A j \in DOMAIN segments[r] : segments[r][j][1] # key
    BY <1>1, <2>2, SearchIs
  <2>4. FirstWith(index_find(key), key) # 0
    BY <2>2, <2>3
  <2> QED
    BY <2>4 DEF key
<1> QED
  BY <1>4, <1>5, <1>6, <1>7, <1>8 DEF WellFormed

-----------------------------------------------------------------------------
(* One segment changed *)

(* g differs from f in segment t only. *)
OneChanged(f, g, t, n) ==
    /\ f \in [0 .. (n - 1) -> Seq(Elements)] /\ g \in [0 .. (n - 1) -> Seq(Elements)]
    /\ \A i \in 0 .. (n - 1) : i # t => g[i] = f[i]

(* The elements before segment t, its own, and those of the r segments from z on. *)
OnePart(f, g, t, n, z, r) ==
    /\ Plus(z, t, 1) /\ Plus(n, z, r)
    /\ Joined(f, 0, t) \in Seq(Elements) /\ Joined(f, z, r) \in Seq(Elements)
    /\ Joined(f, 0, n) = Cat(Joined(f, 0, t), Cat(f[t], Joined(f, z, r)))
    /\ Joined(g, 0, n) = Cat(Joined(f, 0, t), Cat(g[t], Joined(f, z, r)))

(* The elements before and after segment t stay what they were. *)
LEMMA JoinedExcept ==
    ASSUME NEW n \in Nat \ {0}, NEW f, NEW g, NEW t \in 0 .. (n - 1), OneChanged(f, g, t, n)
    PROVE  \E z, r \in Nat : OnePart(f, g, t, n, z, r)
<1>1. PICK z \in Nat, r \in Nat, m \in Nat : Around(0, t, t, 1, z, r, m, n)
  <2>1. t + 1 \in Nat /\ n - t - 1 \in Nat /\ n - t \in Nat
    OBVIOUS
  <2>2. Around(0, t, t, 1, t + 1, n - t - 1, n - t, n)
    BY <2>1 DEF Around, Plus
  <2> QED
    BY <2>1, <2>2
<1>2. Plus(z, t, 1) /\ Plus(n, z, r)
  BY <1>1 DEF Around, Plus
<1>3. \A i \in 0 .. (n - 1) : i # t => g[i] = f[i]
  BY DEF OneChanged
<1>4. /\ Arrays(f, 0, n) /\ Arrays(g, 0, n) /\ t \in Nat /\ n \in Nat
      /\ f[t] \in Seq(Elements) /\ g[t] \in Seq(Elements)
  BY DEF Arrays, OneChanged
<1>5. SameOutside(f, g, t, z, n)
  BY <1>2, <1>3 DEF Plus, SameOutside
<1>6. Joined(g, 0, n) = Cat(Joined(f, 0, t), Cat(Joined(g, t, 1), Joined(f, z, r)))
  BY <1>1, <1>4, <1>5, JoinedChanged
<1>7. /\ Joined(f, 0, n) = Cat(Joined(f, 0, t), Cat(Joined(f, t, 1), Joined(f, z, r)))
      /\ Joined(f, 0, t) \in Seq(Elements) /\ Joined(f, z, r) \in Seq(Elements)
  <2>1. Joined(f, 0, n) = Cat(Joined(f, 0, t), Cat(Joined(f, t, 1), Joined(f, z, r)))
    BY <1>1, <1>4, JoinedAround
  <2>2. Arrays(f, 0, t) /\ Arrays(f, z, r)
    BY <1>1, <1>4, JoinedAround
  <2>3. Joined(f, 0, t) \in Seq(Elements) /\ Joined(f, z, r) \in Seq(Elements)
    BY <1>4, <2>2, JoinedType
  <2> QED
    BY <2>1, <2>3
<1>8. Joined(f, t, 1) = f[t]
  BY <1>4, JoinedOne
<1>9. Joined(g, t, 1) = g[t]
  BY <1>4, JoinedOne
<1>10. /\ Joined(f, 0, n) = Cat(Joined(f, 0, t), Cat(f[t], Joined(f, z, r)))
       /\ Joined(g, 0, n) = Cat(Joined(f, 0, t), Cat(g[t], Joined(f, z, r)))
  BY <1>6, <1>7, <1>8, <1>9, Zenon
<1> QED
  BY <1>2, <1>7, <1>10, Zenon DEF OnePart

(* g and q are the segments and the separators with e put at position i of segment t. *)
PutAt(f, sep, e, t, i, g, q) ==
    /\ g = [f EXCEPT ![t] = InsertAt(f[t], i, e)]
    /\ q = IF i = 1 THEN [sep EXCEPT ![t] = e[1]] ELSE sep

(* An element put into the segment found, at its position. *)
LEMMA InsertionKept ==
    ASSUME NEW f, NEW sep, NEW card, NEW n \in Nat \ {0}, ArraySound(f, sep, card, n), Searchable(f, sep, n),
           NEW e \in Elements, NEW t, Finds(t, sep, n, e[1]), Len(f[t]) < SegmentCapacity, card < MaxElements,
           NEW i, AtPosition(f[t], i, e), NEW g, NEW q, PutAt(f, sep, e, t, i, g, q)
    PROVE  /\ ArraySound(g, q, card + 1, n)
           /\ InsertedInOrder(Joined(g, 0, n), Joined(f, 0, n), e)
           /\ g[t] # <<>> /\ \A s \in 0 .. (n - 1) : s # t => g[s] = f[s]
<1> DEFINE L == InsertAt(f[t], i, e)
<1>1. t \in 0 .. (n - 1) /\ f \in [0 .. (n - 1) -> Seq(Elements)] /\ f[t] \in Seq(Elements)
  BY DEF Finds, ArraySound
<1>2. InsertedInOrder(L, f[t], e) /\ (i = 1 => L[1] = e) /\ (i > 1 => L[1] = f[t][1])
  BY <1>1, InsertAtInOrder
<1>3. L \in Seq(Elements) /\ Len(L) = Len(f[t]) + 1
  <2>1. Inserted(L, f[t], e)
    BY <1>2, InOrderIsInserted
  <2> HIDE DEF L
  <2> QED
    BY <2>1, InsertedType
<1> HIDE DEF L
<1>4. g = [f EXCEPT ![t] = L] /\ q = IF i = 1 THEN [sep EXCEPT ![t] = e[1]] ELSE sep
  BY DEF L, PutAt
<1>5. g \in [0 .. (n - 1) -> Seq(Elements)] /\ g[t] = L /\ \A s \in 0 .. (n - 1) : s # t => g[s] = f[s]
  BY <1>1, <1>3, <1>4
<1>6. PICK z \in Nat, r \in Nat : OnePart(f, g, t, n, z, r)
  <2>1. OneChanged(f, g, t, n)
    BY <1>1, <1>5 DEF OneChanged
  <2> QED
    BY <1>1, <2>1, JoinedExcept
<1>7. e[1] \in Int /\ e[1] \in Keys
  BY PackedMemoryArrayAssumption DEF Keys
<1>8. NoneAbove(Joined(f, 0, t), e[1]) /\ NoneBelow(Joined(f, z, r), e[1])
  <2>1. Plus(z, t, 1) /\ Plus(n, z, r)
    BY <1>6 DEF OnePart
  <2> QED
    BY <1>7, <2>1, FindsSplits
<1>9. InsertedInOrder(Joined(g, 0, n), Joined(f, 0, n), e)
  <2>1. InsertedInOrder(Cat(Joined(f, 0, t), Cat(L, Joined(f, z, r))), Cat(Joined(f, 0, t), Cat(f[t], Joined(f, z, r))), e)
    BY <1>2, <1>6, <1>8, InOrderBetween DEF OnePart
  <2> QED
    BY <1>5, <1>6, <2>1, Zenon DEF OnePart
<1>10. Ordered(Joined(g, 0, n)) /\ Len(Joined(g, 0, n)) = Len(Joined(f, 0, n)) + 1
  <2>1. Ordered(Joined(f, 0, n))
    BY DEF ArraySound
  <2>2. Inserted(Joined(g, 0, n), Joined(f, 0, n), e)
    BY <1>9, InOrderIsInserted
  <2> QED
    BY <1>9, <2>1, <2>2, InsertedOrdered, InsertedType
<1>11. card + 1 \in 0 .. MaxElements /\ card + 1 = Len(Joined(g, 0, n))
  BY <1>10, PackedMemoryArrayAssumption DEF ArraySound
<1>12. \A s \in 0 .. (n - 1) : Len(g[s]) <= SegmentCapacity
  <2>1. Len(L) <= SegmentCapacity
    BY <1>1, <1>3, PackedMemoryArrayAssumption
  <2> QED
    BY <1>5, <2>1 DEF ArraySound
<1>13. q \in [0 .. (n - 1) -> Keys \union {MinKey, MaxKey}]
  <2>1. sep \in [0 .. (n - 1) -> Keys \union {MinKey, MaxKey}]
    BY DEF ArraySound
  <2>2. CASE i = 1
    BY <1>4, <1>7, <2>1, <2>2
  <2>3. CASE i # 1
    BY <1>4, <2>1, <2>3
  <2> QED
    BY <2>2, <2>3
<1>14. L # <<>>
  BY <1>1, <1>3
<1>15. ASSUME NEW s \in 0 .. (n - 1), g[s] # <<>> PROVE q[s] = g[s][1][1]
  <2>1. sep \in [0 .. (n - 1) -> Keys \union {MinKey, MaxKey}] /\ (f[s] # <<>> => sep[s] = f[s][1][1])
    BY DEF ArraySound
  <2>2. CASE s # t
    BY <1>4, <1>5, <1>15, <2>1, <2>2
  <2>3. CASE s = t /\ i = 1
    BY <1>1, <1>2, <1>4, <1>5, <2>1, <2>3
  <2>4. CASE s = t /\ i # 1
    <3>1. i \in 1 .. (Len(f[t]) + 1)
      BY DEF AtPosition
    <3>2. i > 1 /\ f[t] # <<>>
      BY <1>1, <2>4, <3>1
    <3> QED
      BY <1>2, <1>4, <1>5, <2>1, <2>4, <3>2
  <2> QED
    BY <2>2, <2>3, <2>4
<1>16. ArraySound(g, q, card + 1, n)
  BY <1>5, <1>10, <1>11, <1>12, <1>13, <1>15 DEF ArraySound
<1> QED
  BY <1>5, <1>9, <1>14, <1>16

(* g and q are the segments and separators without the element at position i of segment t. *)
TakenAt(f, sep, t, i, g, q, n) ==
    /\ g = [f EXCEPT ![t] = RemoveAt(f[t], i)]
    /\ q \in [0 .. (n - 1) -> Keys \union {MinKey, MaxKey}]
    /\ \A s \in 0 .. (n - 1) : s # t => q[s] = sep[s]
    /\ i > 1 => q[t] = sep[t]
    /\ i = 1 /\ Len(f[t]) > 1 => q[t] = f[t][2][1]

(* An element taken out of a segment. *)
LEMMA RemovalKept ==
    ASSUME NEW f, NEW sep, NEW card, NEW n \in Nat \ {0}, ArraySound(f, sep, card, n),
           NEW t \in 0 .. (n - 1), NEW i \in DOMAIN f[t],
           NEW g, NEW q, TakenAt(f, sep, t, i, g, q, n)
    PROVE  /\ ArraySound(g, q, card - 1, n)
           /\ Inserted(Joined(f, 0, n), Joined(g, 0, n), f[t][i])
           /\ Len(g[t]) = Len(f[t]) - 1 /\ \A s \in 0 .. (n - 1) : s # t => g[s] = f[s]
<1> USE DEF TakenAt
<1> DEFINE L == RemoveAt(f[t], i)
           e == f[t][i]
<1>1. f \in [0 .. (n - 1) -> Seq(Elements)] /\ f[t] \in Seq(Elements) /\ e \in Elements
  BY DEF ArraySound
<1>2. Inserted(f[t], L, e) /\ (i > 1 => L[1] = f[t][1]) /\ (i = 1 /\ Len(f[t]) > 1 => L[1] = f[t][2])
  BY <1>1, RemoveAtIs
<1> HIDE DEF L, e
<1>3. L \in Seq(Elements) /\ Len(f[t]) = Len(L) + 1
  BY <1>1, <1>2, InsertedType
<1>4. g = [f EXCEPT ![t] = L]
  BY DEF L
<1>5. g \in [0 .. (n - 1) -> Seq(Elements)] /\ g[t] = L /\ \A s \in 0 .. (n - 1) : s # t => g[s] = f[s]
  BY <1>1, <1>3, <1>4
<1>6. PICK z \in Nat, r \in Nat : OnePart(f, g, t, n, z, r)
  <2>1. OneChanged(f, g, t, n)
    BY <1>1, <1>5 DEF OneChanged
  <2> QED
    BY <1>1, <2>1, JoinedExcept
<1>7. Inserted(Joined(f, 0, n), Joined(g, 0, n), e)
  <2>1. Inserted(Cat(Joined(f, 0, t), Cat(f[t], Joined(f, z, r))), Cat(Joined(f, 0, t), Cat(L, Joined(f, z, r))), e)
    BY <1>1, <1>2, <1>6, InsertedBetween DEF OnePart
  <2> QED
    BY <1>5, <1>6, <2>1, Zenon DEF OnePart
<1>8. Ordered(Joined(g, 0, n))
  <2>1. Ordered(Joined(f, 0, n))
    BY DEF ArraySound
  <2> QED
    BY <1>1, <1>7, <2>1, RemovedOrdered
<1>9. Joined(g, 0, n) \in Seq(Elements) /\ Len(Joined(f, 0, n)) = Len(Joined(g, 0, n)) + 1
  BY <1>1, <1>7, InsertedType
<1>10. card - 1 \in 0 .. MaxElements /\ card - 1 = Len(Joined(g, 0, n))
  <2> DEFINE y == Len(Joined(g, 0, n))
  <2>1. y \in Nat
    BY <1>9
  <2>2. card = y + 1 /\ card \in 0 .. MaxElements
    BY <1>9 DEF ArraySound
  <2> HIDE DEF y
  <2>3. card - 1 \in 0 .. MaxElements /\ card - 1 = y
    BY <2>1, <2>2, PackedMemoryArrayAssumption
  <2> QED
    BY <2>3 DEF y
<1>11. Len(L) = Len(f[t]) - 1 /\ Len(L) \in Nat
  BY <1>1, <1>3
<1>12. \A s \in 0 .. (n - 1) : Len(g[s]) <= SegmentCapacity
  <2>1. Len(L) <= SegmentCapacity
    <3>1. Len(f[t]) <= SegmentCapacity /\ Len(f[t]) \in Nat
      BY <1>1 DEF ArraySound
    <3> QED
      BY <1>11, <3>1, PackedMemoryArrayAssumption
  <2> QED
    BY <1>5, <2>1 DEF ArraySound
<1>13. ASSUME NEW s \in 0 .. (n - 1), g[s] # <<>> PROVE q[s] = g[s][1][1]
  <2>1. f[s] # <<>> => sep[s] = f[s][1][1]
    BY DEF ArraySound
  <2>2. CASE s # t
    BY <1>5, <1>13, <2>1, <2>2
  <2>3. CASE s = t
    <3>1. f[t] # <<>> /\ Len(f[t]) > 1 /\ i \in Nat \ {0}
      BY <1>1, <1>3, <1>5, <1>13, <2>3
    <3>2. CASE i > 1
      BY <1>2, <1>5, <2>1, <2>3, <3>1, <3>2
    <3>3. CASE i = 1
      BY <1>2, <1>5, <2>3, <3>1, <3>3
    <3> QED
      BY <3>1, <3>2, <3>3
  <2> QED
    BY <2>2, <2>3
<1>14. ArraySound(g, q, card - 1, n)
  BY <1>5, <1>8, <1>10, <1>12, <1>13 DEF ArraySound
<1> QED
  BY <1>5, <1>7, <1>11, <1>14 DEF e

-----------------------------------------------------------------------------
(* Elements shared out again *)

(* Every segment of a layout gets at least one element, and no more than it has room for. *)
LEMMA DealtSound ==
    ASSUME NEW L \in Seq(Elements), NEW n \in Nat, NEW sizes \in Layouts(n, Len(L)),
           NEW D, D = Dealt(L, sizes, n)
    PROVE  /\ D \in [0 .. (n - 1) -> Seq(Elements)] /\ Arrays(D, 0, n) /\ Joined(D, 0, n) = L
           /\ \A s \in 0 .. (n - 1) : D[s] # <<>> /\ Len(D[s]) <= SegmentCapacity /\ D[s][1][1] \in Keys
<1>1. sizes \in [0 .. (n - 1) -> 1 .. SegmentCapacity] /\ Len(L) = Before(sizes, n)[n]
  BY DEF Layouts
<1>2. sizes \in [0 .. (n - 1) -> Nat]
  BY <1>1
<1>3. Arrays(D, 0, n) /\ Joined(D, 0, n) = L
  BY <1>1, <1>2, JoinedDealt
<1>4. ASSUME NEW s \in 0 .. (n - 1)
      PROVE  D[s] \in Seq(Elements) /\ Len(D[s]) = sizes[s]
  BY <1>1, <1>2, DealtAt
<1>5. DOMAIN D = 0 .. (n - 1) /\ D = [s \in 0 .. (n - 1) |-> D[s]]
  BY DEF Dealt
<1>6. ASSUME NEW s \in 0 .. (n - 1)
      PROVE  D[s] # <<>> /\ Len(D[s]) <= SegmentCapacity /\ D[s][1][1] \in Keys
  <2>1. sizes[s] \in 1 .. SegmentCapacity
    BY <1>1
  <2>2. D[s] \in Seq(Elements) /\ Len(D[s]) \in 1 .. SegmentCapacity
    BY <1>4, <2>1
  <2>3. D[s] # <<>> /\ Len(D[s]) <= SegmentCapacity /\ 1 \in DOMAIN D[s]
    BY <2>2, PackedMemoryArrayAssumption
  <2>4. D[s][1] \in Elements
    BY <2>2, <2>3
  <2> QED
    BY <2>3, <2>4 DEF Keys
<1>7. D \in [0 .. (n - 1) -> Seq(Elements)]
  BY <1>4, <1>5
<1> QED
  BY <1>3, <1>6, <1>7

(* A whole array dealt out: what resize builds. *)
LEMMA ResizeKept ==
    ASSUME NEW L \in Seq(Elements), Ordered(L), NEW card \in 0 .. MaxElements, card = Len(L),
           NEW n \in Nat \ {0}, NEW sizes \in Layouts(n, card), NEW D, D = Dealt(L, sizes, n),
           NEW q, q = [s \in DOMAIN D |-> D[s][1][1]]
    PROVE  /\ ArraySound(D, q, card, n) /\ Joined(D, 0, n) = L
           /\ \A s \in 0 .. (n - 1) : D[s] # <<>>
<1>1. /\ D \in [0 .. (n - 1) -> Seq(Elements)] /\ Joined(D, 0, n) = L
      /\ \A s \in 0 .. (n - 1) : D[s] # <<>> /\ Len(D[s]) <= SegmentCapacity /\ D[s][1][1] \in Keys
  <2>1. n \in Nat /\ sizes \in Layouts(n, Len(L))
    OBVIOUS
  <2> QED
    BY <2>1, DealtSound
<1>2. q = [s \in 0 .. (n - 1) |-> D[s][1][1]]
  BY <1>1
<1>3. q \in [0 .. (n - 1) -> Keys \union {MinKey, MaxKey}] /\ \A s \in 0 .. (n - 1) : q[s] = D[s][1][1]
  BY <1>1, <1>2
<1> QED
  BY <1>1, <1>3 DEF ArraySound

(* g and q are the segments and separators with those from a on replaced by the l of D. *)
Replaced(f, sep, a, l, D, g, q, n) ==
    /\ g = [s \in 0 .. (n - 1) |-> IF s \in a .. (a + l - 1) THEN D[s - a] ELSE f[s]]
    /\ q = [s \in 0 .. (n - 1) |-> IF s \in a .. (a + l - 1) THEN D[s - a][1][1] ELSE sep[s]]

(* The l segments from a on are given the elements of L: that makes g and q, with all the *)
(* elements there are then, new of them.                                                  *)
SpreadOf(f, sep, card, n, a, l, z, r, m, L, sizes, D, g, q, all, new) ==
    /\ n \in Nat \ {0} /\ ArraySound(f, sep, card, n)
    /\ a \in Nat /\ l \in Nat /\ z \in Nat /\ r \in Nat /\ m \in Nat /\ Around(0, a, a, l, z, r, m, n)
    /\ L \in Seq(Elements) /\ sizes \in Layouts(l, Len(L)) /\ D = Dealt(L, sizes, l)
    /\ Replaced(f, sep, a, l, D, g, q, n)
    /\ all = Cat(Joined(f, 0, a), Cat(L, Joined(f, z, r))) /\ Ordered(all)
    /\ new \in 0 .. MaxElements /\ new = Len(all)

(* A window dealt out between the segments around it: what spread builds. *)
LEMMA SpreadKept ==
    ASSUME NEW f, NEW sep, NEW card, NEW n, NEW a, NEW l, NEW z, NEW r, NEW m, NEW L, NEW sizes, NEW D,
           NEW g, NEW q, NEW all, NEW new,
           SpreadOf(f, sep, card, n, a, l, z, r, m, L, sizes, D, g, q, all, new)
    PROVE  /\ ArraySound(g, q, new, n) /\ Joined(g, 0, n) = all
           /\ \A s \in 0 .. (n - 1) : g[s] = <<>> => f[s] = <<>> /\ s \notin a .. (a + l - 1)
<1> USE DEF SpreadOf, Replaced
<1>1. /\ D \in [0 .. (l - 1) -> Seq(Elements)] /\ Joined(D, 0, l) = L /\ Arrays(D, 0, l)
      /\ \A s \in 0 .. (l - 1) : D[s] # <<>> /\ Len(D[s]) <= SegmentCapacity /\ D[s][1][1] \in Keys
  BY DealtSound
<1>2. z = a + l /\ n = z + r
  BY DEF Around, Plus
<1>3. f \in [0 .. (n - 1) -> Seq(Elements)] /\ sep \in [0 .. (n - 1) -> Keys \union {MinKey, MaxKey}]
  BY DEF ArraySound
<1>4. ASSUME NEW s \in 0 .. (n - 1), s \in a .. (a + l - 1)
      PROVE  s - a \in 0 .. (l - 1) /\ g[s] = D[s - a] /\ q[s] = D[s - a][1][1]
  BY <1>4
<1>5. ASSUME NEW s \in 0 .. (n - 1), s \notin a .. (a + l - 1)
      PROVE  g[s] = f[s] /\ q[s] = sep[s]
  BY <1>5
<1>6. DOMAIN g = 0 .. (n - 1) /\ DOMAIN q = 0 .. (n - 1)
      /\ g = [s \in 0 .. (n - 1) |-> g[s]] /\ q = [s \in 0 .. (n - 1) |-> q[s]]
  OBVIOUS
<1>7. ASSUME NEW s \in 0 .. (n - 1)
      PROVE  /\ g[s] \in Seq(Elements) /\ Len(g[s]) <= SegmentCapacity /\ q[s] \in Keys \union {MinKey, MaxKey}
             /\ g[s] # <<>> => q[s] = g[s][1][1]
             /\ g[s] = <<>> => f[s] = <<>> /\ s \notin a .. (a + l - 1)
  <2>1. CASE s \in a .. (a + l - 1)
    <3>1. s - a \in 0 .. (l - 1) /\ g[s] = D[s - a] /\ q[s] = D[s - a][1][1]
      BY <1>4, <2>1
    <3>2. D[s - a] \in Seq(Elements) /\ D[s - a] # <<>> /\ Len(D[s - a]) <= SegmentCapacity /\ D[s - a][1][1] \in Keys
      BY <1>1, <3>1
    <3> QED
      BY <3>1, <3>2, Zenon
  <2>2. CASE s \notin a .. (a + l - 1)
    <3>1. g[s] = f[s] /\ q[s] = sep[s]
      BY <1>5, <2>2
    <3>2. /\ f[s] \in Seq(Elements) /\ Len(f[s]) <= SegmentCapacity /\ sep[s] \in Keys \union {MinKey, MaxKey}
          /\ f[s] # <<>> => sep[s] = f[s][1][1]
      BY <1>3 DEF ArraySound
    <3> QED
      BY <2>2, <3>1, <3>2, Zenon
  <2> QED
    BY <2>1, <2>2
<1>8. g \in [0 .. (n - 1) -> Seq(Elements)] /\ q \in [0 .. (n - 1) -> Keys \union {MinKey, MaxKey}]
  BY <1>6, <1>7
<1>9. Arrays(f, 0, n) /\ Arrays(g, 0, n) /\ n \in Nat
  BY <1>3, <1>7, SMTT(30) DEF Arrays
<1>10. SameOutside(f, g, a, z, n)
  BY <1>2, <1>5 DEF SameOutside
<1>11. Joined(g, a, l) = L
  <2>1. SameArrays(g, a, D, 0, l)
    <3>1. ASSUME NEW i \in 0 .. (l - 1) PROVE g[a + i] = D[0 + i]
      <4>1. a + i \in 0 .. (n - 1) /\ a + i \in a .. (a + l - 1) /\ (a + i) - a = i /\ 0 + i = i
        BY <1>2
      <4>2. g[a + i] = D[(a + i) - a]
        BY <1>4, <4>1
      <4> QED
        BY <4>1, <4>2
    <3> QED
      BY <3>1 DEF SameArrays
  <2>2. Arrays(g, a, l)
    <3>1. 0 <= a /\ a + l <= 0 + n
      BY <1>2
    <3> QED
      BY <1>9, <3>1, ArraysWithin
  <2>3. Joined(g, a, l) = Joined(D, 0, l)
    BY <1>1, <2>1, <2>2, JoinedSame
  <2> QED
    BY <1>1, <2>3
<1>12. Joined(g, 0, n) = Cat(Joined(f, 0, a), Cat(Joined(g, a, l), Joined(f, z, r)))
  BY <1>9, <1>10, JoinedChanged
<1>13. Joined(g, 0, n) = all
  BY <1>11, <1>12
<1>14. ArraySound(g, q, new, n)
  BY <1>7, <1>8, <1>13 DEF ArraySound
<1> QED
  BY <1>7, <1>13, <1>14

-----------------------------------------------------------------------------
(* What spread_load loads *)

(* What bounds the elements of several segments bounds those of some of them. *)
LEMMA BoundsWithin ==
    ASSUME NEW f, NEW b \in Nat, NEW n \in Nat, Arrays(f, b, n), NEW a \in Nat, NEW l \in Nat,
           b <= a, a + l <= b + n, NEW key
    PROVE  /\ Joined(f, a, l) \in Seq(Elements)
           /\ NoneAbove(Joined(f, b, n), key) => NoneAbove(Joined(f, a, l), key)
           /\ NoneBelow(Joined(f, b, n), key) => NoneBelow(Joined(f, a, l), key)
           /\ Ordered(Joined(f, b, n)) => Ordered(Joined(f, a, l))
<1>1. PICK k \in Nat, z \in Nat, r \in Nat, m \in Nat : Around(b, k, a, l, z, r, m, n)
  <2>1. a - b \in Nat /\ a + l \in Nat /\ b + n - (a + l) \in Nat /\ n - (a - b) \in Nat
    OBVIOUS
  <2>2. Around(b, a - b, a, l, a + l, b + n - (a + l), n - (a - b), n)
    BY <2>1 DEF Around, Plus
  <2> QED
    BY <2>1, <2>2
<1> DEFINE K == Joined(f, b, k)
           W == Joined(f, a, l)
           Z == Joined(f, z, r)
<1>2. Joined(f, b, n) = Cat(K, Cat(W, Z))
  BY <1>1, JoinedAround
<1>3. K \in Seq(Elements) /\ W \in Seq(Elements) /\ Z \in Seq(Elements)
  BY <1>1, JoinedAround, ZenonT(60)
<1> HIDE DEF K, W, Z
<1>4. Cat(W, Z) \in Seq(Elements)
  BY <1>3, CatType
<1>5. NoneAbove(Cat(K, Cat(W, Z)), key) => NoneAbove(W, key)
  BY <1>3, <1>4, CatBounds
<1>6. NoneBelow(Cat(K, Cat(W, Z)), key) => NoneBelow(W, key)
  BY <1>3, <1>4, CatBounds
<1>7. Ordered(Cat(K, Cat(W, Z))) => Ordered(W)
  <2>1. Ordered(Cat(K, Cat(W, Z))) => Ordered(Cat(W, Z))
    BY <1>3, <1>4, CatOrdered
  <2>2. Ordered(Cat(W, Z)) => Ordered(W)
    BY <1>3, CatOrdered
  <2> QED
    BY <2>1, <2>2
<1> QED
  BY <1>2, <1>3, <1>5, <1>6, <1>7 DEF W

(* No key of a window before the segment found is greater. *)
LEMMA WindowBefore ==
    ASSUME NEW f, NEW sep, NEW n \in Nat \ {0}, Searchable(f, sep, n), NEW key \in Int,
           NEW t, Finds(t, sep, n, key), NEW a \in Nat, NEW l \in Nat, a + l <= t
    PROVE  NoneAbove(Joined(f, a, l), key)
<1>1. t \in 0 .. (n - 1) /\ t \in Nat
  BY DEF Finds
<1>2. PICK z \in Nat, r \in Nat : Plus(z, t, 1) /\ Plus(n, z, r)
  <2>1. t + 1 \in Nat /\ n - (t + 1) \in Nat /\ Plus(t + 1, t, 1) /\ Plus(n, t + 1, n - (t + 1))
    BY <1>1 DEF Plus
  <2> QED
    BY <2>1
<1>3. NoneAbove(Joined(f, 0, t), key)
  BY <1>2, FindsSplits
<1>4. Arrays(f, 0, t) /\ 0 <= a /\ a + l <= 0 + t
  BY <1>1 DEF Searchable, Arrays
<1> QED
  BY <1>1, <1>3, <1>4, BoundsWithin

(* No key of a window after it is smaller. *)
LEMMA WindowAfter ==
    ASSUME NEW f, NEW sep, NEW n \in Nat \ {0}, Searchable(f, sep, n), NEW key \in Int,
           NEW t, Finds(t, sep, n, key), NEW a \in Nat, NEW l \in Nat, t < a, a + l <= n
    PROVE  NoneBelow(Joined(f, a, l), key)
<1>1. t \in 0 .. (n - 1) /\ t \in Nat
  BY DEF Finds
<1>2. PICK z \in Nat, r \in Nat : Plus(z, t, 1) /\ Plus(n, z, r)
  <2>1. t + 1 \in Nat /\ n - (t + 1) \in Nat /\ Plus(t + 1, t, 1) /\ Plus(n, t + 1, n - (t + 1))
    BY <1>1 DEF Plus
  <2> QED
    BY <2>1
<1>3. NoneBelow(Joined(f, z, r), key)
  BY <1>2, FindsSplits
<1>4. Arrays(f, z, r) /\ z <= a /\ a + l <= z + r
  BY <1>1, <1>2 DEF Searchable, Arrays, Plus
<1> QED
  BY <1>3, <1>4, BoundsWithin

(* What spread_load builds for an insertion: the window from a to z with e put into the *)
(* two segments from p on, one of which is the one found.                               *)
Loaded(f, a, p, y, z, e) ==
    Cat(Cat(Joined(f, a, p - a), InsertAt(Joined(f, p, 2), PositionBefore(Joined(f, p, 2), e[1]), e)), Joined(f, y, z - y))

(* The element is where it belongs, in the window and in the whole array. *)
LEMMA LoadedInOrder ==
    ASSUME NEW f, NEW sep, NEW n \in Nat \ {0}, Searchable(f, sep, n), NEW e \in Elements,
           NEW t, Finds(t, sep, n, e[1]), NEW a \in Nat, NEW l \in Nat, NEW z \in Nat, NEW r \in Nat, NEW m \in Nat,
           Around(0, a, a, l, z, r, m, n), NEW p \in Nat, NEW y \in Nat, y = p + 2, a <= p, p <= t, t < y, y <= z
    PROVE  /\ Inserted(Loaded(f, a, p, y, z, e), Joined(f, a, l), e)
           /\ InsertedInOrder(Cat(Joined(f, 0, a), Cat(Loaded(f, a, p, y, z, e), Joined(f, z, r))), Joined(f, 0, n), e)
<1>1. z = a + l /\ n = z + r /\ t \in Nat
  BY DEF Around, Plus, Finds
<1>2. PICK k \in Nat, u \in Nat, w \in Nat : k = p - a /\ u = z - y /\ Around(a, k, p, 2, y, u, w, l)
  <2>1. p - a \in Nat /\ z - y \in Nat /\ 2 + (z - y) \in Nat
    OBVIOUS
  <2>2. Around(a, p - a, p, 2, y, z - y, 2 + (z - y), l)
    BY <1>1, <2>1 DEF Around, Plus
  <2> QED
    BY <2>1, <2>2
<1> DEFINE A == Joined(f, 0, a)
           K == Joined(f, a, k)
           M == Joined(f, p, 2)
           U == Joined(f, y, u)
           Z == Joined(f, z, r)
           N == InsertAt(M, PositionBefore(M, e[1]), e)
<1>3. Loaded(f, a, p, y, z, e) = Cat(Cat(K, N), U)
  BY <1>2 DEF Loaded
<1>4. Arrays(f, 0, n) /\ Arrays(f, a, l) /\ n \in Nat
  <2>1. Arrays(f, 0, n) /\ n \in Nat
    BY DEF Searchable
  <2> QED
    BY <2>1, JoinedAround
<1>5. Joined(f, 0, n) = Cat(A, Cat(Joined(f, a, l), Z))
  BY <1>4, JoinedAround
<1>6. Joined(f, a, l) = Cat(K, Cat(M, U))
  BY <1>2, <1>4, JoinedAround
<1>7. A \in Seq(Elements) /\ Z \in Seq(Elements)
  <2>1. Arrays(f, 0, a) /\ Arrays(f, z, r)
    BY <1>4, JoinedAround
  <2> QED
    BY <2>1, JoinedType
<1>8. K \in Seq(Elements) /\ M \in Seq(Elements) /\ U \in Seq(Elements)
  <2>0. 0 <= a /\ a + k <= 0 + n /\ 0 <= p /\ p + 2 <= 0 + n /\ 0 <= y /\ y + u <= 0 + n
    BY <1>1, <1>2
  <2>1. Arrays(f, a, k) /\ Arrays(f, p, 2) /\ Arrays(f, y, u)
    BY <1>4, <2>0, ArraysWithin
  <2> QED
    BY <2>1, JoinedType
<1>9. e[1] \in Int
  BY PackedMemoryArrayAssumption
<1>10. NoneAbove(A, e[1]) /\ NoneAbove(K, e[1])
  <2>1. 0 + a <= t /\ a + k <= t
    BY <1>1, <1>2
  <2> QED
    BY <1>9, <2>1, WindowBefore
<1>11. NoneBelow(U, e[1]) /\ NoneBelow(Z, e[1])
  <2>1. t < y /\ y + u <= n /\ t < z /\ z + r <= n
    BY <1>1, <1>2
  <2> QED
    BY <1>9, <2>1, WindowAfter
<1>12. Ordered(M)
  <2>1. Ordered(Joined(f, 0, n)) /\ 0 <= p /\ p + 2 <= 0 + n
    BY <1>1 DEF Searchable
  <2> QED
    BY <1>4, <2>1, BoundsWithin
<1>13. InsertedInOrder(N, M, e)
  <2> HIDE DEF M
  <2>1. AtPosition(M, PositionBefore(M, e[1]), e)
    BY <1>8, <1>12, PositionBeforeIs
  <2> QED
    BY <1>8, <2>1, InsertAtInOrder
<1> HIDE DEF A, K, M, U, Z, N
<1>14. N \in Seq(Elements)
  <2>1. Inserted(N, M, e)
    BY <1>13, InOrderIsInserted
  <2> QED
    BY <2>1, InsertedType
<1>15. Cat(Cat(K, N), U) = Cat(K, Cat(N, U))
  BY <1>8, <1>14, CatAssociative
<1>16. InsertedInOrder(Cat(K, Cat(N, U)), Cat(K, Cat(M, U)), e)
  BY <1>8, <1>10, <1>11, <1>13, InOrderBetween
<1>17. InsertedInOrder(Loaded(f, a, p, y, z, e), Joined(f, a, l), e)
  BY <1>3, <1>6, <1>15, <1>16, Zenon
<1>18. InsertedInOrder(Cat(A, Cat(Loaded(f, a, p, y, z, e), Z)), Cat(A, Cat(Joined(f, a, l), Z)), e)
  BY <1>7, <1>10, <1>11, <1>17, InOrderBetween
<1>19. Inserted(Loaded(f, a, p, y, z, e), Joined(f, a, l), e)
  BY <1>17, InOrderIsInserted
<1> QED
  BY <1>5, <1>18, <1>19 DEF A, Z

-----------------------------------------------------------------------------
(* The steps *)

(* A next state with n segments that are sound satisfies the invariant. *)
LEMMA NextSound ==
    ASSUME NEW h \in 1 .. MaxHeight, NEW n \in Nat \ {0}, n = WindowLength(h),
           ArraySound(segments', separators', m_cardinality', n),
           CallSound(segments', m_cardinality', call', n), ret' \in Values
    PROVE  IndInv' /\ AllElements' = Joined(segments', 0, n)
<1>1. IndInv'
  BY Zenon DEF IndInv, Sound
<1>2. h \in Nat \ {0}
  BY PackedMemoryArrayAssumption
<1>3. DOMAIN segments' = 0 .. (n - 1)
  BY DEF ArraySound
<1>4. Cardinality(0 .. (n - 1)) = n
  BY <1>2, HeightOfLength
<1>5. AllElements' = Joined(segments', 0, Cardinality(DOMAIN segments'))
  BY DEF AllElements, Content, m_number_segments
<1> QED
  BY <1>1, <1>3, <1>4, <1>5

(* An insertion begins. *)
LEMMA InsertStep ==
    ASSUME IndInv, NEW e \in Elements, insert(e)
    PROVE  IndInv' /\ AllElements' = AllElements
<1>1. PICK h \in 1 .. MaxHeight, n \in Nat \ {0} : Sound(h, n)
  BY DEF IndInv
<1>2. /\ ArraySound(segments, separators, m_cardinality, n) /\ CallSound(segments, m_cardinality, call, n)
      /\ n = WindowLength(h) /\ ret \in Values
  BY <1>1 DEF Sound
<1>3. UNCHANGED <<segments, separators, m_cardinality, ret>> /\ call = Idle /\ m_cardinality < MaxElements
      /\ call' = [op |-> "insert", element |-> e, resized |-> FALSE]
  BY DEF insert
<1>4. CallSound(segments', m_cardinality', call', n)
  <2>1. call' \in Calls(n)
    BY <1>3 DEF Calls
  <2>2. call'.op = "insert" /\ call'.resized = FALSE /\ Idle.op = "idle"
    BY <1>3 DEF Idle
  <2>3. n > 1 => \A s \in 0 .. (n - 1) : segments[s] # <<>>
    BY <1>2, <1>3, <2>2 DEF CallSound
  <2> QED
    BY <1>3, <2>1, <2>2, <2>3 DEF CallSound
<1>5. ArraySound(segments', separators', m_cardinality', n) /\ ret' \in Values
  BY <1>2, <1>3
<1>6. IndInv' /\ AllElements' = Joined(segments', 0, n)
  BY <1>2, <1>4, <1>5, NextSound
<1>7. AllElements = Joined(segments, 0, n)
  BY <1>1, SegmentsOf
<1> QED
  BY <1>3, <1>6, <1>7

(* A call that is over leaves nothing to require but that no segment is empty. *)
LEMMA IdleSound ==
    ASSUME NEW f, NEW card, NEW n \in Nat \ {0}, n > 1 => \A s \in 0 .. (n - 1) : f[s] # <<>>
    PROVE  CallSound(f, card, Idle, n)
BY DEF CallSound, Calls, Idle

(* What an insertion in progress can rely on. *)
LEMMA InsertingFacts ==
    ASSUME NEW h \in 1 .. MaxHeight, NEW n \in Nat \ {0}, Sound(h, n), call.op = "insert"
    PROVE  /\ call.element \in Elements /\ call.resized \in BOOLEAN
           /\ call = [op |-> "insert", element |-> call.element, resized |-> call.resized]
           /\ m_cardinality < MaxElements
           /\ n > 1 => \A s \in 0 .. (n - 1) : segments[s] # <<>>
           /\ Searchable(segments, separators, n)
           /\ Finds(Target, separators, n, call.element[1])
<1>1. ArraySound(segments, separators, m_cardinality, n) /\ CallSound(segments, m_cardinality, call, n)
  BY DEF Sound
<1>2. call \in [op : {"insert"}, element : Elements, resized : BOOLEAN]
  BY <1>1 DEF CallSound, Calls, Idle
<1>3. call.element \in Elements /\ call.resized \in BOOLEAN
      /\ call = [op |-> "insert", element |-> call.element, resized |-> call.resized]
  BY <1>2
<1>4. m_cardinality < MaxElements /\ (n > 1 => \A s \in 0 .. (n - 1) : segments[s] # <<>>)
  BY <1>1 DEF CallSound
<1>5. n = 1 \/ Led(segments, separators, n)
  BY <1>1, LedOutsideRemove
<1>6. Searchable(segments, separators, n)
  BY <1>1, <1>5, SegmentsOf, SeparatorType DEF ArraySound, Searchable
<1>7. call.element[1] \in Int
  BY <1>3, PackedMemoryArrayAssumption
<1>8. Finds(Target, separators, n, call.element[1])
  BY <1>7, IndexFinds DEF Target
<1> QED
  BY <1>3, <1>4, <1>6, <1>8

(* insert_empty: an empty array has one segment, and holds the element then. *)
LEMMA InsertEmptyStep ==
    ASSUME IndInv, insert_empty
    PROVE  IndInv' /\ call.element \in Elements /\ Inserted(AllElements', AllElements, call.element)
<1>1. PICK h \in 1 .. MaxHeight, n \in Nat \ {0} : Sound(h, n)
  BY DEF IndInv
<1>2. ArraySound(segments, separators, m_cardinality, n) /\ n = WindowLength(h) /\ ret \in Values
  BY <1>1 DEF Sound
<1> DEFINE e == call.element
<1>3. /\ call.op = "insert" /\ m_cardinality = 0 /\ segments' = [segments EXCEPT ![0] = <<e>>]
      /\ separators' = [separators EXCEPT ![0] = e[1]] /\ m_cardinality' = 1 /\ call' = Idle /\ ret' = ret
  BY DEF insert_empty
<1>4. e \in Elements /\ (n > 1 => \A s \in 0 .. (n - 1) : segments[s] # <<>>) /\ m_cardinality < MaxElements
  BY <1>1, <1>3, InsertingFacts
<1>5. AllElements = Joined(segments, 0, n) /\ AllElements \in Seq(Elements) /\ Arrays(segments, 0, n)
  BY <1>1, SegmentsOf
<1>6. AllElements = <<>>
  BY <1>2, <1>3, <1>5, EmptySeq DEF ArraySound
<1>7. n = 1
  <2> SUFFICES ASSUME n > 1 PROVE FALSE
    OBVIOUS
  <2>1. segments[0] # <<>>
    BY <1>4
  <2>2. Joined(segments, 0, n) # <<>>
    BY <1>5, <2>1, JoinedHead
  <2> QED
    BY <1>5, <1>6, <2>2
<1> HIDE DEF e
<1> DEFINE w == <<e>>
<1>8. w \in Seq(Elements) /\ Len(w) = 1 /\ w[1] = e /\ Ordered(w) /\ w # <<>>
  BY <1>4, Single
<1>9. segments' = [segments EXCEPT ![0] = w] /\ separators' = [separators EXCEPT ![0] = e[1]]
  BY <1>3 DEF e
<1> HIDE DEF w
<1>10. segments \in [0 .. (n - 1) -> Seq(Elements)] /\ separators \in [0 .. (n - 1) -> Keys \union {MinKey, MaxKey}]
       /\ 0 .. (n - 1) = {0}
  BY <1>2, <1>7 DEF ArraySound
<1>11. segments' \in [0 .. (n - 1) -> Seq(Elements)] /\ segments'[0] = w
  BY <1>8, <1>9, <1>10
<1>12. separators' \in [0 .. (n - 1) -> Keys \union {MinKey, MaxKey}] /\ separators'[0] = e[1]
  <2>1. e[1] \in Keys
    BY <1>4 DEF Keys, e
  <2> QED
    BY <1>9, <1>10, <2>1
<1>13. Joined(segments', 0, n) = w
  <2>1. Joined(segments', 0, 1) = segments'[0]
    BY <1>8, <1>11, JoinedOne
  <2> QED
    BY <1>7, <1>11, <2>1
<1>14. ArraySound(segments', separators', m_cardinality', n)
  <2>1. 1 \in 0 .. MaxElements
    BY <1>3, <1>4, PackedMemoryArrayAssumption
  <2>2. \A s \in 0 .. (n - 1) : Len(segments'[s]) <= SegmentCapacity
    <3>1. 1 <= SegmentCapacity
      BY PackedMemoryArrayAssumption
    <3> QED
      BY <1>8, <1>10, <1>11, <3>1
  <2>3. \A s \in 0 .. (n - 1) : segments'[s] # <<>> => separators'[s] = segments'[s][1][1]
    BY <1>8, <1>10, <1>11, <1>12
  <2> QED
    BY <1>3, <1>8, <1>11, <1>12, <1>13, <2>1, <2>2, <2>3 DEF ArraySound
<1>15. CallSound(segments', m_cardinality', call', n)
  BY <1>3, <1>7, IdleSound
<1>16. IndInv' /\ AllElements' = Joined(segments', 0, n)
  BY <1>2, <1>3, <1>14, <1>15, NextSound
<1>17. Inserted(w, <<>>, e)
  <2>1. <<>> \in Seq(Elements)
    OBVIOUS
  <2>2. Cat(w, <<>>) = w /\ Cat(<<>>, w) = w /\ Cat(<<>>, <<>>) = <<>>
    BY <1>8, <2>1, CatEmpty
  <2>3. <<>> = Cat(<<>>, <<>>) /\ w = Cat(<<>>, Cat(<<e>>, <<>>))
    BY <2>2, Zenon DEF w
  <2> QED
    BY <2>1, <2>3 DEF Inserted
<1>18. Inserted(AllElements', AllElements, e)
  BY <1>6, <1>13, <1>16, <1>17
<1> QED
  BY <1>4, <1>16, <1>18 DEF e

(* storage_insert_unsafe: a free slot in the segment found. *)
LEMMA StorageInsertStep ==
    ASSUME IndInv, storage_insert_unsafe
    PROVE  IndInv' /\ call.element \in Elements /\ Inserted(AllElements', AllElements, call.element)
<1>1. PICK h \in 1 .. MaxHeight, n \in Nat \ {0} : Sound(h, n)
  BY DEF IndInv
<1>2. ArraySound(segments, separators, m_cardinality, n) /\ n = WindowLength(h) /\ ret \in Values
  BY <1>1 DEF Sound
<1> DEFINE e == call.element
           t == Target
           i == IF t % 2 = 0 THEN PositionBefore(segments[t], e[1]) ELSE PositionAfter(segments[t], e[1])
<1>3. /\ call.op = "insert" /\ Len(segments[t]) < SegmentCapacity
      /\ segments' = [segments EXCEPT ![t] = InsertAt(segments[t], i, e)]
      /\ separators' = IF i = 1 THEN [separators EXCEPT ![t] = e[1]] ELSE separators
      /\ m_cardinality' = m_cardinality + 1 /\ call' = Idle /\ ret' = ret
  BY DEF storage_insert_unsafe
<1>4. /\ e \in Elements /\ m_cardinality < MaxElements /\ (n > 1 => \A s \in 0 .. (n - 1) : segments[s] # <<>>)
      /\ Searchable(segments, separators, n) /\ Finds(t, separators, n, e[1])
  BY <1>1, <1>3, InsertingFacts
<1>5. AtPosition(segments[t], i, e)
  <2>1. t \in 0 .. (n - 1) /\ segments[t] \in Seq(Elements)
    BY <1>2, <1>4 DEF Finds, ArraySound
  <2>2. Ordered(segments[t])
    <3>1. Arrays(segments, 0, n) /\ Ordered(Joined(segments, 0, n)) /\ t \in 0 .. (0 + n - 1)
      BY <1>4, <2>1 DEF Searchable
    <3> HIDE DEF t
    <3> QED
      BY <3>1, SegmentOf
  <2>3. AtPosition(segments[t], PositionBefore(segments[t], e[1]), e)
    BY <1>4, <2>1, <2>2, PositionBeforeIs
  <2>4. AtPosition(segments[t], PositionAfter(segments[t], e[1]), e)
    BY <1>4, <2>1, <2>2, PositionAfterIs
  <2> QED
    BY <2>3, <2>4, Zenon
<1> HIDE DEF e, t, i
<1>6. /\ ArraySound(segments', separators', m_cardinality + 1, n)
      /\ InsertedInOrder(Joined(segments', 0, n), Joined(segments, 0, n), e)
      /\ segments'[t] # <<>> /\ \A s \in 0 .. (n - 1) : s # t => segments'[s] = segments[s]
  <2>1. PutAt(segments, separators, e, t, i, segments', separators')
    BY <1>3 DEF PutAt
  <2>2. Len(segments[t]) < SegmentCapacity
    BY <1>3
  <2>3. ArraySound(segments, separators, m_cardinality, n)
    BY <1>2
  <2>4. /\ e \in Elements /\ m_cardinality < MaxElements
        /\ Searchable(segments, separators, n) /\ Finds(t, separators, n, e[1])
    BY <1>4
  <2>5. ArraySound(segments', separators', m_cardinality + 1, n)
    BY <1>5, <2>1, <2>2, <2>3, <2>4, InsertionKept
  <2>6. InsertedInOrder(Joined(segments', 0, n), Joined(segments, 0, n), e)
    BY <1>5, <2>1, <2>2, <2>3, <2>4, InsertionKept
  <2>7. segments'[t] # <<>> /\ \A s \in 0 .. (n - 1) : s # t => segments'[s] = segments[s]
    BY <1>5, <2>1, <2>2, <2>3, <2>4, InsertionKept
  <2> QED
    BY <2>5, <2>6, <2>7
<1>7. CallSound(segments', m_cardinality', call', n)
  <2>1. n > 1 => \A s \in 0 .. (n - 1) : segments'[s] # <<>>
    BY <1>4, <1>6
  <2> QED
    BY <1>3, <2>1, IdleSound
<1>8. IndInv' /\ AllElements' = Joined(segments', 0, n)
  BY <1>2, <1>3, <1>6, <1>7, NextSound
<1>9. AllElements = Joined(segments, 0, n)
  BY <1>1, SegmentsOf
<1>10. Inserted(AllElements', AllElements, e)
  BY <1>6, <1>8, <1>9, InOrderIsInserted
<1> QED
  BY <1>4, <1>8, <1>10 DEF e

(* An array of several segments has an even number of them. *)
LEMMA SegmentsEven ==
    ASSUME NEW h \in 1 .. MaxHeight, NEW n \in Nat \ {0}, n = WindowLength(h), n > 1
    PROVE  h >= 2 /\ \E k \in Nat \ {0} : n = 2 * k /\ k = WindowLength(h - 1)
<1>1. h \in Nat \ {0} /\ WindowLength(1) = 1
  BY WindowLengths, PackedMemoryArrayAssumption
<1>2. h # 1
  BY <1>1
<1>3. h >= 2 /\ h - 1 \in Nat \ {0} /\ (h - 1) + 1 = h
  BY <1>1, <1>2
<1>4. WindowLength(h - 1) \in Nat \ {0} /\ WindowLength((h - 1) + 1) = 2 * WindowLength(h - 1)
  BY <1>3, WindowLengths, Zenon
<1>5. n = 2 * WindowLength(h - 1)
  BY <1>3, <1>4, Zenon
<1> QED
  BY <1>3, <1>4, <1>5

(* A segment of an array of several has to keep at least one element. *)
LEMMA MinimumSize ==
    ASSUME NEW h \in 1 .. MaxHeight, m_height = h, h >= 2
    PROVE  minimum_size >= 1 /\ minimum_size \in Int
<1> DEFINE x == Rho(h, 1) * SegmentCapacity
           y == Scale(h)
           size == x \div y
<1>1. h \in Nat
  BY PackedMemoryArrayAssumption
<1>2. x \in Int
  <2>1. RhoH * (h - 1) \in Int /\ (RhoH - Rho0) * (h - 1) \in Int
    BY <1>1, PackedMemoryArrayAssumption
  <2>2. Rho(h, 1) \in Int
    BY <2>1 DEF Rho
  <2> QED
    BY <2>2, PackedMemoryArrayAssumption
<1>3. y \in Nat \ {0}
  BY <1>1 DEF Scale
<1>4. minimum_size = Max({size, 1})
  BY DEF minimum_size
<1> HIDE DEF x, y
<1>5. size \in Int
  BY <1>2, <1>3
<1> HIDE DEF size
<1>6. \E m \in {size, 1} : \A k \in {size, 1} : m >= k
  BY <1>5
<1>7. Max({size, 1}) \in {size, 1} /\ \A k \in {size, 1} : Max({size, 1}) >= k
  BY <1>6, Zenon DEF Max
<1> QED
  BY <1>4, <1>5, <1>7

(* With one element in all there is one segment that is not empty. *)
LEMMA OneElement ==
    ASSUME NEW f, NEW n \in Nat \ {0}, Arrays(f, 0, n), Len(Joined(f, 0, n)) = 1,
           NEW t \in 0 .. (n - 1), f[t] # <<>>, f[0] # <<>>
    PROVE  t = 0
<1> SUFFICES ASSUME t # 0 PROVE FALSE
  OBVIOUS
<1>1. PICK r \in Nat \ {0} : Plus(n, t, r) /\ Plus(t, 0, t)
  <2>1. n - t \in Nat \ {0} /\ Plus(n, t, n - t) /\ Plus(t, 0, t)
    BY DEF Plus
  <2> QED
    BY <2>1
<1>2. t \in Nat \ {0} /\ t \in Nat /\ r \in Nat /\ n \in Nat
  OBVIOUS
<1> DEFINE A == Joined(f, 0, t)
           B == Joined(f, t, r)
<1>3. Joined(f, 0, n) = Cat(A, B)
  BY <1>1, <1>2, JoinedSplit
<1>4. Arrays(f, 0, t) /\ Arrays(f, t, r)
  BY <1>1 DEF Arrays, Plus
<1>5. A \in Seq(Elements) /\ B \in Seq(Elements)
  BY <1>2, <1>4, JoinedType
<1>6. A # <<>>
  BY <1>2, <1>4, JoinedHead
<1>7. B # <<>>
  BY <1>2, <1>4, JoinedHead
<1> HIDE DEF A, B
<1>8. Len(A) \in Nat \ {0} /\ Len(B) \in Nat \ {0}
  BY <1>5, <1>6, <1>7, EmptySeq
<1>9. Len(Cat(A, B)) = Len(A) + Len(B)
  BY <1>5, CatLen
<1>10. Len(Cat(A, B)) = 1
  BY <1>3, Zenon
<1>11. Len(A) + Len(B) = 1
  BY <1>9, <1>10, Zenon
<1> QED
  BY <1>8, <1>11

(* What remove does to the separators: only that of the segment changes, and to the key *)
(* that is then its first, when there is one.                                            *)
LEMMA SeparatorsAfterRemove ==
    ASSUME NEW h \in 1 .. MaxHeight, NEW n \in Nat \ {0}, Sound(h, n), call = Idle,
           NEW t \in 0 .. (n - 1), NEW i \in DOMAIN segments[t], NEW q, q = SeparatorsWithout(t, i)
    PROVE  /\ q \in [0 .. (n - 1) -> Keys \union {MinKey, MaxKey}]
           /\ \A s \in 0 .. (n - 1) : s # t => q[s] = separators[s]
           /\ i > 1 => q[t] = separators[t]
           /\ i = 1 /\ Len(segments[t]) > 1 => q[t] = segments[t][2][1]
<1> DEFINE seq == segments[t]
<1>1. ArraySound(segments, separators, m_cardinality, n) /\ CallSound(segments, m_cardinality, call, n)
      /\ n = WindowLength(h)
  BY DEF Sound
<1>2. seq \in Seq(Elements) /\ separators \in [0 .. (n - 1) -> Keys \union {MinKey, MaxKey}] /\ i \in 1 .. Len(seq)
  BY <1>1 DEF ArraySound
<1>3. n > 1 => \A s \in 0 .. (n - 1) : segments[s] # <<>>
  BY <1>1 DEF CallSound, Idle
<1>4. Arrays(segments, 0, n) /\ m_cardinality = Len(Joined(segments, 0, n))
  BY <1>1, SegmentsOf DEF ArraySound
<1>5. seq # <<>> /\ Len(seq) \in Nat \ {0}
  BY <1>2
<1>6. q = IF i > 1 THEN separators
          ELSE IF Len(seq) > 1 THEN [separators EXCEPT ![t] = seq[2][1]]
          ELSE IF t % 2 = 1 THEN separators
          ELSE IF m_cardinality = 1 THEN [separators EXCEPT ![0] = MinKey]
          ELSE [separators EXCEPT ![t] = separators[t + 1]]
  BY DEF SeparatorsWithout
<1>7. CASE i > 1 \/ (~ (i > 1) /\ ~ (Len(seq) > 1) /\ t % 2 = 1)
  <2>1. q = separators
    BY <1>6, <1>7
  <2> QED
    BY <1>2, <1>7, <2>1
<1>8. CASE ~ (i > 1) /\ Len(seq) > 1
  <2>1. q = [separators EXCEPT ![t] = seq[2][1]]
    BY <1>6, <1>8
  <2>2. seq[2][1] \in Keys
    <3>1. 2 \in DOMAIN seq
      BY <1>2, <1>8
    <3>2. seq[2] \in Elements
      BY <1>2, <3>1
    <3> QED
      BY <3>2 DEF Keys
  <2> HIDE DEF seq
  <2>3. q \in [0 .. (n - 1) -> Keys \union {MinKey, MaxKey}] /\ q[t] = seq[2][1]
        /\ \A s \in 0 .. (n - 1) : s # t => q[s] = separators[s]
    BY <1>2, <2>1, <2>2
  <2> QED
    BY <1>8, <2>3 DEF seq
<1>9. CASE ~ (i > 1) /\ ~ (Len(seq) > 1) /\ t % 2 # 1 /\ m_cardinality = 1
  <2>1. q = [separators EXCEPT ![0] = MinKey]
    BY <1>6, <1>9
  <2>2. t = 0
    <3>1. CASE n = 1
      BY <3>1
    <3>2. CASE n > 1
      <4>1. segments[0] # <<>>
        BY <1>3, <3>2
      <4> QED
        BY <1>4, <1>5, <1>9, <4>1, OneElement
    <3> QED
      BY <3>1, <3>2
  <2>3. q \in [0 .. (n - 1) -> Keys \union {MinKey, MaxKey}] /\ \A s \in 0 .. (n - 1) : s # t => q[s] = separators[s]
    BY <1>2, <2>1, <2>2
  <2> QED
    BY <1>9, <2>3
<1>10. CASE ~ (i > 1) /\ ~ (Len(seq) > 1) /\ t % 2 # 1 /\ m_cardinality # 1
  <2>1. q = [separators EXCEPT ![t] = separators[t + 1]]
    BY <1>6, <1>10
  <2>2. n > 1
    <3> SUFFICES ASSUME n = 1 PROVE FALSE
      OBVIOUS
    <3>1. t = 0 /\ Joined(segments, 0, 1) = segments[0]
      BY <1>2, JoinedOne
    <3>2. Len(Joined(segments, 0, n)) = Len(seq)
      BY <3>1
    <3>3. m_cardinality = Len(seq)
      BY <1>4, <3>2, Zenon
    <3>4. Len(seq) = 1
      <4> DEFINE x == Len(seq)
      <4>1. x \in Nat \ {0} /\ ~ (x > 1)
        BY <1>5, <1>10
      <4> HIDE DEF x
      <4>2. x = 1
        BY <4>1
      <4> QED
        BY <4>2 DEF x
    <3> QED
      BY <1>10, <3>3, <3>4, Zenon
  <2>3. t + 1 \in 0 .. (n - 1)
    <3>1. PICK k \in Nat \ {0} : n = 2 * k
      BY <1>1, <2>2, SegmentsEven
    <3> QED
      BY <1>10, <3>1
  <2>4. q \in [0 .. (n - 1) -> Keys \union {MinKey, MaxKey}] /\ \A s \in 0 .. (n - 1) : s # t => q[s] = separators[s]
    BY <1>2, <2>1, <2>3
  <2> QED
    BY <1>10, <2>4
<1> QED
  BY <1>7, <1>8, <1>9, <1>10, Zenon

(* A client does not store the value that remove returns for a missing key. *)
NoMinusOne == \A e \in Elements : e[2] # -1

(* The element that remove takes out of the array. *)
Taken(key) == segments[index_find(key)][FirstWith(index_find(key), key)]

(* remove: the element is gone, and a segment with too few is left to rebalance. *)
LEMMA RemoveStep ==
    ASSUME NoMinusOne, IndInv, NEW key \in Keys, remove(key)
    PROVE  /\ IndInv' /\ Taken(key) \in Elements /\ Taken(key)[1] = key /\ ret' = Taken(key)[2]
           /\ Inserted(AllElements, AllElements', Taken(key))
<1>1. PICK h \in 1 .. MaxHeight, n \in Nat \ {0} : Sound(h, n)
  BY DEF IndInv
<1>2. /\ ArraySound(segments, separators, m_cardinality, n) /\ CallSound(segments, m_cardinality, call, n)
      /\ n = WindowLength(h)
  BY <1>1 DEF Sound
<1> DEFINE t == index_find(key)
           i == FirstWith(t, key)
           e == segments[t][i]
           size == Len(segments[t]) - 1
<1>3. /\ call = Idle /\ i # 0 /\ segments' = [segments EXCEPT ![t] = RemoveAt(segments[t], i)]
      /\ separators' = SeparatorsWithout(t, i) /\ m_cardinality' = m_cardinality - 1 /\ ret' = e[2]
      /\ call' = IF e[2] # -1 /\ m_number_segments > 1 /\ size < minimum_size
                 THEN [op |-> "remove", segment |-> t] ELSE Idle
  BY DEF remove
<1>4. key \in Int
  BY PackedMemoryArrayAssumption DEF Keys
<1>5. t \in 0 .. (n - 1) /\ i \in DOMAIN segments[t] /\ segments[t][i][1] = key
  BY <1>1, <1>3, <1>4, SearchIs
<1>6. m_number_segments = n /\ m_height = h /\ AllElements = Joined(segments, 0, n)
  BY <1>1, SegmentsOf
<1>7. segments[t] \in Seq(Elements) /\ e \in Elements
  BY <1>2, <1>5 DEF ArraySound
<1>8. n > 1 => \A s \in 0 .. (n - 1) : segments[s] # <<>>
  BY <1>2, <1>3 DEF CallSound, Idle
<1>9. e[2] # -1 /\ e[2] \in Values
  BY <1>7, NoMinusOne DEF NoMinusOne, Values
<1>10. e = Taken(key)
  BY DEF Taken
<1> HIDE DEF t, i, e
<1> DEFINE g == segments'
           q == separators'
<1>11. /\ q \in [0 .. (n - 1) -> Keys \union {MinKey, MaxKey}]
       /\ \A s \in 0 .. (n - 1) : s # t => q[s] = separators[s]
       /\ i > 1 => q[t] = separators[t]
       /\ i = 1 /\ Len(segments[t]) > 1 => q[t] = segments[t][2][1]
  BY <1>1, <1>3, <1>5, SeparatorsAfterRemove, SMTT(30)
<1>12. g = [segments EXCEPT ![t] = RemoveAt(segments[t], i)]
  BY <1>3
<1> HIDE DEF g, q
<1>13. /\ ArraySound(g, q, m_cardinality - 1, n)
       /\ Inserted(Joined(segments, 0, n), Joined(g, 0, n), segments[t][i])
       /\ Len(g[t]) = Len(segments[t]) - 1 /\ \A s \in 0 .. (n - 1) : s # t => g[s] = segments[s]
  <2>1. TakenAt(segments, separators, t, i, g, q, n)
    BY <1>11, <1>12 DEF TakenAt
  <2>2. ArraySound(segments, separators, m_cardinality, n)
    BY <1>2
  <2>3. ArraySound(g, q, m_cardinality - 1, n)
    BY <1>5, <2>1, <2>2, RemovalKept
  <2>4. Inserted(Joined(segments, 0, n), Joined(g, 0, n), segments[t][i])
    BY <1>5, <2>1, <2>2, RemovalKept
  <2>5. Len(g[t]) = Len(segments[t]) - 1 /\ \A s \in 0 .. (n - 1) : s # t => g[s] = segments[s]
    BY <1>5, <2>1, <2>2, RemovalKept
  <2> QED
    BY <2>3, <2>4, <2>5
<1>14. CallSound(segments', m_cardinality', call', n)
  <2>1. CASE n = 1
    <3>1. call' = Idle
      BY <1>3, <1>6, <2>1
    <3> QED
      BY <2>1, <3>1, IdleSound
  <2>2. CASE n > 1
    <3>1. minimum_size >= 1 /\ minimum_size \in Int
      BY <1>2, <1>6, <2>2, SegmentsEven, MinimumSize
    <3>2. CASE size < minimum_size
      <4>1. call' = [op |-> "remove", segment |-> t]
        BY <1>3, <1>6, <1>9, <2>2, <3>2
      <4>2. call' \in Calls(n) /\ call'.op = "remove" /\ call'.segment = t
        BY <1>5, <4>1 DEF Calls
      <4>3. \A s \in 0 .. (n - 1) : segments'[s] = <<>> => s = t
        BY <1>8, <1>13, <2>2 DEF g
      <4> QED
        BY <2>2, <4>2, <4>3 DEF CallSound
    <3>3. CASE ~ (size < minimum_size)
      <4>1. call' = Idle
        BY <1>3, <3>3
      <4>2. Len(g[t]) >= 1
        BY <1>7, <1>13, <3>1, <3>3
      <4>3. \A s \in 0 .. (n - 1) : segments'[s] # <<>>
        BY <1>8, <1>13, <2>2, <4>2 DEF g
      <4> QED
        BY <4>1, <4>3, IdleSound
    <3> QED
      BY <3>2, <3>3
  <2> QED
    BY <2>1, <2>2
<1>15. IndInv' /\ AllElements' = Joined(segments', 0, n)
  <2>1. ArraySound(segments', separators', m_cardinality', n) /\ ret' \in Values
    BY <1>3, <1>9, <1>13 DEF g, q
  <2> QED
    BY <1>2, <1>14, <2>1, NextSound
<1>16. Inserted(AllElements, AllElements', e)
  BY <1>6, <1>13, <1>15 DEF g, e
<1> QED
  BY <1>3, <1>5, <1>7, <1>10, <1>15, <1>16 DEF e

-----------------------------------------------------------------------------
(* The window that is rebalanced *)

(* The segment to rebalance is one of the array. *)
LEMMA OriginInside ==
    ASSUME NEW h \in 1 .. MaxHeight, NEW n \in Nat \ {0}, Sound(h, n), Rebalances
    PROVE  /\ Origin \in 0 .. (n - 1)
           /\ call.op = "insert" => Origin = Target /\ Len(segments[Target]) = SegmentCapacity
           /\ call.op # "insert" => call.op = "remove" /\ Origin = call.segment /\ n > 1
<1>1. CallSound(segments, m_cardinality, call, n)
  BY DEF Sound
<1>2. CASE call.op = "insert"
  <2>1. Finds(Target, separators, n, call.element[1])
    BY <1>2, InsertingFacts
  <2>2. Target \in 0 .. (n - 1)
    BY <2>1 DEF Finds
  <2> QED
    BY <1>2, <2>2 DEF Origin, Rebalances
<1>3. CASE call.op # "insert"
  <2>1. call.op = "remove"
    BY <1>3 DEF Rebalances
  <2>2. call \in [op : {"remove"}, segment : 0 .. (n - 1)]
    BY <1>1, <2>1 DEF CallSound, Calls, Idle
  <2>3. n > 1
    BY <1>1, <2>1 DEF CallSound
  <2>4. Origin = call.segment /\ call.segment \in 0 .. (n - 1)
    BY <1>3, <2>2 DEF Origin
  <2> QED
    BY <1>3, <2>1, <2>3, <2>4
<1> QED
  BY <1>2, <1>3

(* The climb ends at a height where the window is balanced, or at the top. *)
LEMMA WindowHeightIs ==
    ASSUME NEW h \in 1 .. MaxHeight, m_height = h
    PROVE  /\ WindowHeight \in 1 .. h
           /\ h >= 2 => WindowHeight >= 2
           /\ ~ Balanced(WindowHeight) => WindowHeight = h
<1> DEFINE balanced == {k \in 2 .. h : Balanced(k)}
<1>1. WindowHeight = IF balanced = {} THEN h ELSE Min(balanced)
  BY DEF WindowHeight
<1>2. h \in Nat \ {0} /\ balanced \in SUBSET Nat
  BY PackedMemoryArrayAssumption
<1>3. CASE balanced = {}
  BY <1>1, <1>2, <1>3
<1>4. CASE balanced # {}
  <2>1. WindowHeight = Min(balanced)
    BY <1>1, <1>4
  <2>2. Min(balanced) \in balanced
    <3> HIDE DEF balanced
    <3> QED
      BY <1>2, <1>4, MinIs
  <2>3. WindowHeight \in 2 .. h /\ Balanced(WindowHeight)
    BY <2>1, <2>2, Zenon
  <2> QED
    BY <1>2, <2>3
<1> QED
  BY <1>3, <1>4

(* Its segments are in the array, around the one to rebalance. *)
LEMMA WindowAround ==
    ASSUME NEW h \in 1 .. MaxHeight, NEW n \in Nat \ {0}, Sound(h, n), Rebalances, NEW k \in 1 .. h
    PROVE  /\ WindowStart(k) \in Nat /\ WindowLength(k) \in Nat \ {0}
           /\ WindowStart(k) <= Origin /\ Origin < WindowStart(k) + WindowLength(k)
           /\ WindowStart(k) + WindowLength(k) <= n
<1>1. Origin \in 0 .. (n - 1)
  BY OriginInside
<1>2. k \in Nat \ {0} /\ h \in Nat \ {0} /\ k <= h /\ n = WindowLength(h)
  BY PackedMemoryArrayAssumption DEF Sound
<1> DEFINE L == WindowLength(k)
<1>3. L \in Nat \ {0}
  BY <1>2, WindowLengths
<1>4. PICK q \in Nat \ {0} : n = L * q
  BY <1>2, WindowMultiple
<1>5. WindowStart(k) = (Origin \div L) * L
  BY DEF WindowStart
<1> HIDE DEF L
<1>6. WindowStart(k) \in Nat /\ WindowStart(k) <= Origin /\ Origin < WindowStart(k) + L /\ WindowStart(k) + L <= n
  BY <1>1, <1>3, <1>4, <1>5, WindowInside
<1> QED
  BY <1>3, <1>6 DEF L

(* A window of two segments or more has both of its pair. *)
LEMMA PairInside ==
    ASSUME NEW L \in Nat \ {0}, NEW half \in Nat, L = 2 * half, NEW o \in Nat, NEW a, a = (o \div L) * L,
           a \in Nat, a <= o, o < a + L
    PROVE  /\ 2 * (o \div 2) \in Nat /\ a <= 2 * (o \div 2) /\ 2 * (o \div 2) <= o
           /\ o < 2 * (o \div 2) + 2 /\ 2 * (o \div 2) + 2 <= a + L
<1>1. PICK b \in Nat : a = 2 * b
  <2>1. o \div L \in Nat /\ (o \div L) * half \in Nat
    OBVIOUS
  <2>2. (o \div L) * L = 2 * ((o \div L) * half)
    <3> DEFINE d == o \div L
    <3>1. d \in Nat
      BY <2>1
    <3> HIDE DEF d
    <3>2. d * L = 2 * (d * half)
      BY <3>1
    <3> QED
      BY <3>2 DEF d
  <2> QED
    BY <2>1, <2>2
<1> DEFINE c == o \div 2
<1>2. c \in Nat /\ 2 * c <= o /\ o < 2 * c + 2
  OBVIOUS
<1> HIDE DEF c
<1>3. b <= c /\ c < b + half
  BY <1>1, <1>2
<1>4. a <= 2 * c /\ 2 * c + 2 <= a + L
  BY <1>1, <1>2, <1>3
<1> QED
  BY <1>2, <1>4 DEF c

(* What a window is loaded with, and the array it makes together with the segments around it. *)
LEMMA LoadIs ==
    ASSUME NEW h \in 1 .. MaxHeight, NEW n \in Nat \ {0}, Sound(h, n), Rebalances, NEW k \in 2 .. h,
           NEW a \in Nat, a = WindowStart(k), NEW l \in Nat, l = WindowLength(k),
           NEW z \in Nat, NEW r \in Nat, NEW m \in Nat, Around(0, a, a, l, z, r, m, n),
           NEW L, L = spread_load(a, l), NEW all, all = Cat(Joined(segments, 0, a), Cat(L, Joined(segments, z, r)))
    PROVE  /\ L \in Seq(Elements) /\ Len(L) = num_elements_after(k)
           /\ Ordered(all) /\ CardinalityAfterSpread \in 0 .. MaxElements /\ Len(all) = CardinalityAfterSpread
           /\ call.op = "insert" => Inserted(all, Joined(segments, 0, n), call.element)
           /\ call.op # "insert" => all = Joined(segments, 0, n)
<1> DEFINE W == Joined(segments, a, l)
           A == Joined(segments, 0, a)
           Z == Joined(segments, z, r)
           F == Joined(segments, 0, n)
<1>1. ArraySound(segments, separators, m_cardinality, n)
  BY DEF Sound
<1>2. Arrays(segments, 0, n) /\ n \in Nat
  BY SegmentsOf
<1>3. F = Cat(A, Cat(W, Z))
  BY <1>2, JoinedAround
<1>4. A \in Seq(Elements) /\ W \in Seq(Elements) /\ Z \in Seq(Elements)
  <2>1. Arrays(segments, 0, a) /\ Arrays(segments, a, l) /\ Arrays(segments, z, r)
    BY <1>2, JoinedAround
  <2> QED
    BY <2>1, JoinedType
<1>5. Ordered(F) /\ m_cardinality = Len(F) /\ m_cardinality \in 0 .. MaxElements
  BY <1>1 DEF ArraySound
<1>6. Content(a, l) = W
  BY DEF Content
<1>7. num_elements_after(k) = IF call.op = "insert" THEN Len(W) + 1 ELSE Len(W)
  BY <1>6, Zenon DEF num_elements_after
<1>8. CASE call.op # "insert"
  <2>1. call.op = "remove"
    BY <1>8, OriginInside
  <2>2. L = W
    BY <1>6, <2>1 DEF spread_load
  <2>3. all = F
    BY <1>3, <2>2
  <2>4. CardinalityAfterSpread = m_cardinality /\ num_elements_after(k) = Len(W)
    BY <1>7, <1>8 DEF CardinalityAfterSpread
  <2> HIDE DEF W, F
  <2> QED
    BY <1>4, <1>5, <1>8, <2>2, <2>3, <2>4, Zenon DEF F
<1>9. CASE call.op = "insert"
  <2> DEFINE e == call.element
             t == Target
  <2>1. e \in Elements /\ m_cardinality < MaxElements
        /\ Searchable(segments, separators, n) /\ Finds(t, separators, n, e[1])
    BY <1>9, InsertingFacts
  <2>2. Origin = t /\ t \in 0 .. (n - 1)
    BY <1>9, OriginInside
  <2>3. k \in 1 .. h /\ k \in Nat \ {0} /\ k - 1 \in Nat \ {0} /\ (k - 1) + 1 = k
    BY PackedMemoryArrayAssumption
  <2>4. a <= t /\ t < a + l /\ a + l <= n /\ l \in Nat \ {0}
    BY <2>2, <2>3, WindowAround
  <2>5. a = (t \div l) * l
    BY <2>2 DEF WindowStart
  <2>6. PICK half \in Nat : l = 2 * half
    <3>1. WindowLength(k - 1) \in Nat \ {0} /\ WindowLength((k - 1) + 1) = 2 * WindowLength(k - 1)
      BY <2>3, WindowLengths, Zenon
    <3>2. l = 2 * WindowLength(k - 1)
      BY <2>3, <3>1, Zenon
    <3> QED
      BY <3>1, <3>2
  <2> DEFINE p == 2 * (t \div 2)
             y == p + 2
  <2>7. p \in Nat /\ a <= p /\ p <= t /\ t < p + 2 /\ p + 2 <= a + l
    <3> HIDE DEF t
    <3>1. t \in Nat
      BY <2>2
    <3> QED
      BY <2>4, <2>5, <2>6, <3>1, PairInside
  <2>8. z = a + l
    BY DEF Around, Plus
  <2>9. L = Cat(Cat(Joined(segments, a, p - a),
                    InsertAt(Joined(segments, p, 2), PositionBefore(Joined(segments, p, 2), e[1]), e)),
                Joined(segments, p + 2, a + l - p - 2))
    BY <1>9, <2>2 DEF spread_load, Content, Cat
  <2> HIDE DEF p, e, t
  <2>10. a + l - p - 2 = z - y
    BY <2>7, <2>8
  <2>11. L = Loaded(segments, a, p, y, z, e)
    BY <2>9, <2>10 DEF Loaded
  <2>12. y \in Nat /\ y = p + 2 /\ t < y /\ y <= z
    BY <2>7, <2>8
  <2> HIDE DEF y
  <2>13. Inserted(Loaded(segments, a, p, y, z, e), W, e)
    BY <2>1, <2>7, <2>12, LoadedInOrder
  <2>14. InsertedInOrder(Cat(A, Cat(Loaded(segments, a, p, y, z, e), Z)), F, e)
    BY <2>1, <2>7, <2>12, LoadedInOrder
  <2> HIDE DEF W, A, Z, F
  <2>15. L \in Seq(Elements) /\ Len(L) = Len(W) + 1
    BY <2>1, <2>11, <2>13, InsertedType
  <2>16. InsertedInOrder(all, F, e)
    BY <2>11, <2>14 DEF A, Z
  <2>17. Inserted(all, F, e)
    BY <2>16, InOrderIsInserted
  <2>18. Ordered(all) /\ Len(all) = Len(F) + 1
    BY <1>5, <2>1, <2>16, <2>17, InsertedOrdered, InsertedType
  <2>19. CardinalityAfterSpread = m_cardinality + 1 /\ m_cardinality + 1 \in 0 .. MaxElements
    BY <1>5, <1>9, <2>1, PackedMemoryArrayAssumption, SMTT(30) DEF CardinalityAfterSpread
  <2>20. num_elements_after(k) = Len(W) + 1
    BY <1>7, <1>9
  <2> QED
    BY <1>5, <1>9, <2>15, <2>17, <2>18, <2>19, <2>20, Zenon DEF e, F
<1> QED
  BY <1>8, <1>9

(* A window that is balanced when a rebalance is due has two segments or more. *)
LEMMA BalancedIsHigh ==
    ASSUME NEW h \in 1 .. MaxHeight, NEW n \in Nat \ {0}, Sound(h, n), Rebalances, Balanced(WindowHeight)
    PROVE  h >= 2 /\ WindowHeight \in 2 .. h
<1>1. m_height = h /\ h \in Nat \ {0} /\ n = WindowLength(h)
  BY SegmentsOf, PackedMemoryArrayAssumption DEF Sound
<1>2. WindowHeight \in 1 .. h /\ (h >= 2 => WindowHeight >= 2)
  BY <1>1, WindowHeightIs
<1>3. h >= 2
  <2> SUFFICES ASSUME h = 1 PROVE FALSE
    BY <1>1
  <2>1. n = 1 /\ WindowHeight = 1 /\ WindowLength(1) = 1
    BY <1>1, <1>2, WindowLengths
  <2>2. call.op = "insert" /\ Origin = Target /\ Len(segments[Target]) = SegmentCapacity /\ Origin \in 0 .. (n - 1)
    BY <2>1, OriginInside
  <2>3. Target = 0 /\ WindowStart(1) = 0
    <3>1. Target = 0
      BY <2>1, <2>2
    <3>2. 1 \in 1 .. h
      BY <1>1
    <3>3. WindowStart(1) \in Nat /\ WindowStart(1) <= Origin
      BY <3>2, WindowAround
    <3> QED
      BY <2>2, <3>1, <3>3
  <2>4. segments[0] \in Seq(Elements)
    BY <2>1 DEF Sound, ArraySound
  <2>5. Content(WindowStart(1), WindowLength(1)) = segments[0]
    <3>1. Joined(segments, 0, 1) = segments[0]
      BY <2>4, JoinedOne
    <3> QED
      BY <2>1, <2>3, <3>1, Zenon DEF Content
  <2>6. num_elements_after(1) = Len(segments[0]) + 1
    BY <2>2, <2>5, Zenon DEF num_elements_after
  <2>7. num_elements_after(1) <= SegmentCapacity
    BY <1>1, <2>1 DEF Balanced
  <2>8. Len(segments[0]) = SegmentCapacity
    BY <2>2, <2>3, Zenon
  <2> QED
    BY <2>6, <2>7, <2>8, PackedMemoryArrayAssumption
<1> QED
  BY <1>2, <1>3

(* spread: the same elements, and the one that is inserted. *)
LEMMA SpreadStep ==
    ASSUME IndInv, spread
    PROVE  /\ IndInv' /\ ret' = ret
           /\ call.op = "insert" => call.element \in Elements /\ Inserted(AllElements', AllElements, call.element)
           /\ call.op # "insert" => AllElements' = AllElements
<1>1. PICK h \in 1 .. MaxHeight, n \in Nat \ {0} : Sound(h, n)
  BY DEF IndInv
<1>2. /\ ArraySound(segments, separators, m_cardinality, n) /\ CallSound(segments, m_cardinality, call, n)
      /\ n = WindowLength(h) /\ ret \in Values
  BY <1>1 DEF Sound
<1> DEFINE k == WindowHeight
           a == WindowStart(k)
           l == WindowLength(k)
           L == spread_load(a, l)
<1>3. Rebalances /\ Balanced(k) /\ m_cardinality' = CardinalityAfterSpread /\ call' = Idle /\ ret' = ret
  BY DEF spread
<1>4. PICK sizes \in Layouts(l, num_elements_after(k)) :
         /\ segments' = [s \in DOMAIN segments |->
                            IF s \in a .. (a + l - 1) THEN Dealt(L, sizes, l)[s - a] ELSE segments[s]]
         /\ separators' = [s \in DOMAIN separators |->
                            IF s \in a .. (a + l - 1) THEN Dealt(L, sizes, l)[s - a][1][1] ELSE separators[s]]
  BY DEF spread
<1>5. k \in 2 .. h /\ k \in 1 .. h
  BY <1>1, <1>3, BalancedIsHigh
<1>6. DOMAIN segments = 0 .. (n - 1) /\ DOMAIN separators = 0 .. (n - 1) /\ AllElements = Joined(segments, 0, n)
  BY <1>1, <1>2, SegmentsOf DEF ArraySound
<1>7. a \in Nat /\ l \in Nat \ {0} /\ a <= Origin /\ Origin < a + l /\ a + l <= n
  BY <1>1, <1>3, <1>5, WindowAround
<1> HIDE DEF k
<1>8. a = WindowStart(k) /\ l = WindowLength(k) /\ L = spread_load(a, l)
  OBVIOUS
<1> HIDE DEF a, l, L
<1>9. PICK z \in Nat, r \in Nat, m \in Nat : Around(0, a, a, l, z, r, m, n)
  <2>1. a + l \in Nat /\ n - (a + l) \in Nat /\ n - a \in Nat
    BY <1>7
  <2>2. Around(0, a, a, l, a + l, n - (a + l), n - a, n)
    BY <1>7, <2>1 DEF Around, Plus
  <2> QED
    BY <2>1, <2>2
<1> DEFINE all == Cat(Joined(segments, 0, a), Cat(L, Joined(segments, z, r)))
           new == CardinalityAfterSpread
           D == Dealt(L, sizes, l)
<1>10. all = Cat(Joined(segments, 0, a), Cat(L, Joined(segments, z, r))) /\ D = Dealt(L, sizes, l)
  OBVIOUS
<1> HIDE DEF all, D
<1>11. /\ L \in Seq(Elements) /\ Len(L) = num_elements_after(k)
       /\ Ordered(all) /\ new \in 0 .. MaxElements /\ Len(all) = new
       /\ call.op = "insert" => Inserted(all, Joined(segments, 0, n), call.element)
       /\ call.op # "insert" => all = Joined(segments, 0, n)
  <2>1. l \in Nat
    BY <1>7
  <2> QED
    BY <1>1, <1>3, <1>5, <1>7, <1>8, <1>9, <1>10, <2>1, LoadIs
<1>12. sizes \in Layouts(l, Len(L))
  BY <1>11
<1> HIDE DEF new
<1>13. segments' = [s \in 0 .. (n - 1) |-> IF s \in a .. (a + l - 1) THEN D[s - a] ELSE segments[s]]
  BY <1>4, <1>6, <1>10
<1>14. separators' = [s \in 0 .. (n - 1) |-> IF s \in a .. (a + l - 1) THEN D[s - a][1][1] ELSE separators[s]]
  BY <1>4, <1>6, <1>10
<1>15. /\ ArraySound(segments', separators', new, n) /\ Joined(segments', 0, n) = all
       /\ \A s \in 0 .. (n - 1) : segments'[s] = <<>> => segments[s] = <<>> /\ s \notin a .. (a + l - 1)
  <2>1. l \in Nat /\ a \in Nat
    BY <1>7
  <2>2. Replaced(segments, separators, a, l, D, segments', separators', n)
    BY <1>13, <1>14 DEF Replaced
  <2>3. ArraySound(segments, separators, m_cardinality, n)
    BY <1>2
  <2>4. L \in Seq(Elements) /\ Ordered(all) /\ new \in 0 .. MaxElements /\ new = Len(all)
    BY <1>11
  <2>5. SpreadOf(segments, separators, m_cardinality, n, a, l, z, r, m, L, sizes, D, segments', separators', all, new)
    BY <1>9, <1>10, <1>12, <2>1, <2>2, <2>3, <2>4, Zenon DEF SpreadOf
  <2> QED
    BY <2>5, SpreadKept
<1>16. CallSound(segments', m_cardinality', call', n)
  <2>1. ASSUME n > 1, NEW s \in 0 .. (n - 1), segments'[s] = <<>> PROVE FALSE
    <3>1. segments[s] = <<>> /\ s \notin a .. (a + l - 1)
      BY <1>15, <2>1
    <3>2. call.op = "remove" /\ call.segment = s
      BY <1>2, <2>1, <3>1 DEF CallSound
    <3>3. Origin = s
      BY <3>2 DEF Origin
    <3> QED
      BY <1>7, <3>1, <3>3
  <2> QED
    BY <1>3, <2>1, IdleSound
<1>17. IndInv' /\ AllElements' = Joined(segments', 0, n)
  BY <1>2, <1>3, <1>15, <1>16, NextSound DEF new
<1>18. call.op = "insert" => call.element \in Elements
  BY <1>1, InsertingFacts
<1> QED
  BY <1>3, <1>6, <1>11, <1>15, <1>17, <1>18

(* At the top of the tree the window is the whole array. *)
LEMMA FullWindow ==
    ASSUME NEW h \in 1 .. MaxHeight, NEW n \in Nat \ {0}, Sound(h, n), Rebalances
    PROVE  num_elements_after(h) = IF call.op = "insert" THEN m_cardinality + 1 ELSE m_cardinality
<1>1. h \in Nat \ {0} /\ h \in 1 .. h /\ n = WindowLength(h)
  BY PackedMemoryArrayAssumption DEF Sound
<1>2. WindowStart(h) = 0
  <2>1. WindowStart(h) \in Nat /\ WindowStart(h) + n <= n
    BY <1>1, WindowAround
  <2> QED
    BY <2>1
<1>3. Content(WindowStart(h), WindowLength(h)) = Joined(segments, 0, n)
  BY <1>1, <1>2, Zenon DEF Content
<1>4. m_cardinality = Len(Joined(segments, 0, n))
  BY DEF Sound, ArraySound
<1> QED
  BY <1>3, <1>4, Zenon DEF num_elements_after

(* When no window is balanced for an insertion, the whole array would be too dense. *)
LEMMA TooDense ==
    ASSUME NEW h \in 1 .. MaxHeight, NEW n \in Nat \ {0}, Sound(h, n), Rebalances, call.op = "insert",
           ~ Balanced(WindowHeight)
    PROVE  ThetaH * (SegmentCapacity * n) < 100 * (m_cardinality + 1)
<1>1. m_height = h /\ h \in Nat \ {0} /\ n = WindowLength(h)
  BY SegmentsOf, PackedMemoryArrayAssumption DEF Sound
<1>2. ~ Balanced(h)
  BY <1>1, WindowHeightIs
<1> DEFINE x == m_cardinality + 1
           W == SegmentCapacity * n
<1>3. x \in Nat /\ SegmentCapacity \in Nat /\ W \in Nat /\ ThetaH \in Nat /\ ThetaH <= 100
  <2>1. m_cardinality \in Nat
    BY PackedMemoryArrayAssumption DEF Sound, ArraySound
  <2> QED
    BY <2>1, PackedMemoryArrayAssumption
<1>4. num_elements_after(h) = x
  BY FullWindow
<1>5. CASE h = 1
  <2>1. n = 1
    BY <1>1, <1>5, WindowLengths
  <2>2. ~ (x <= SegmentCapacity)
    BY <1>1, <1>2, <1>4, <1>5 DEF Balanced
  <2>3. W = SegmentCapacity
    BY <1>3, <2>1
  <2> HIDE DEF x, W
  <2>4. ThetaH * W <= 100 * W
    BY <1>3
  <2>5. ThetaH * W < 100 * x
    BY <1>3, <2>2, <2>3, <2>4
  <2> QED
    BY <2>5 DEF x, W
<1>6. CASE h # 1
  <2> DEFINE d == h - 1
  <2>1. d \in Nat \ {0} /\ h - h = 0
    BY <1>1, <1>6
  <2>2. ~ (x * Scale(h) <= Theta(h, h) * WindowCapacity(h))
    BY <1>1, <1>2, <1>4, <1>6 DEF Balanced
  <2>3. Scale(h) = 100 * d /\ WindowCapacity(h) = W
    BY <1>1 DEF Scale, WindowCapacity
  <2>4. Theta(h, h) = ThetaH * d
    <3>1. (Theta0 - ThetaH) * 0 = 0
      BY PackedMemoryArrayAssumption
    <3>2. ThetaH * d + 0 = ThetaH * d
      BY <1>3, <2>1
    <3> QED
      BY <2>1, <3>1, <3>2 DEF Theta
  <2>5. ~ (x * (100 * d) <= (ThetaH * d) * W)
    BY <2>2, <2>3, <2>4
  <2> HIDE DEF x, W, d
  <2>6. ThetaH * W < 100 * x
    <3> SUFFICES ASSUME 100 * x <= ThetaH * W PROVE FALSE
      BY <1>3
    <3> DEFINE u == 100 * x
               v == ThetaH * W
    <3>1. u \in Nat /\ v \in Nat /\ u <= v
      BY <1>3
    <3>2. x * (100 * d) = u * d /\ (ThetaH * d) * W = v * d
      BY <1>3, <2>1
    <3> HIDE DEF u, v
    <3>3. u * d <= v * d
      BY <2>1, <3>1
    <3> QED
      BY <2>5, <3>2, <3>3
  <2> QED
    BY <2>6 DEF x, W
<1> QED
  BY <1>5, <1>6

\* resize marks the insertion it interrupts as one that is tried again.
LEMMA TriedAgain ==
    ASSUME NEW c \in [op : {"insert"}, element : Elements, resized : BOOLEAN]
    PROVE  /\ [c EXCEPT !.resized = TRUE] \in [op : {"insert"}, element : Elements, resized : BOOLEAN]
           /\ [c EXCEPT !.resized = TRUE].op = "insert"
  OBVIOUS

(* resize: twice or half as many segments with the same elements. *)
LEMMA ResizeStep ==
    ASSUME IndInv, resize
    PROVE  IndInv' /\ AllElements' = AllElements /\ ret' = ret
<1>1. PICK h \in 1 .. MaxHeight, n \in Nat \ {0} : Sound(h, n)
  BY DEF IndInv
<1>2. /\ ArraySound(segments, separators, m_cardinality, n) /\ CallSound(segments, m_cardinality, call, n)
      /\ n = WindowLength(h) /\ ret \in Values
  BY <1>1 DEF Sound
<1> DEFINE M == SegmentsAfterResize
           L == Content(0, m_number_segments)
<1>3. PICK sizes \in Layouts(M, m_cardinality) :
         /\ segments' = Dealt(L, sizes, M)
         /\ separators' = [s \in DOMAIN Dealt(L, sizes, M) |-> Dealt(L, sizes, M)[s][1][1]]
  BY DEF resize
<1>4. /\ Rebalances /\ ~ Balanced(WindowHeight) /\ UNCHANGED <<m_cardinality, ret>>
      /\ call' = IF call.op = "insert" THEN [call EXCEPT !.resized = TRUE] ELSE Idle
  BY DEF resize
<1>5. m_number_segments = n /\ L = Joined(segments, 0, n) /\ L = AllElements /\ L \in Seq(Elements)
      /\ Arrays(segments, 0, n)
  BY <1>1, SegmentsOf DEF AllElements
<1>6. M = IF call.op = "insert" THEN 2 * n ELSE n \div 2
  BY <1>5 DEF SegmentsAfterResize
<1>7. h \in Nat \ {0} /\ MaxHeight \in Nat \ {0}
  BY PackedMemoryArrayAssumption
<1> HIDE DEF M, L
<1>8. PICK g \in 1 .. MaxHeight : M = WindowLength(g)
  <2>1. CASE call.op = "insert"
    <3>1. ThetaH * (SegmentCapacity * n) < 100 * (m_cardinality + 1)
      BY <1>1, <1>4, <2>1, TooDense
    <3>2. m_cardinality + 1 \in Nat /\ m_cardinality + 1 <= MaxElements
      <4>1. m_cardinality < MaxElements /\ m_cardinality \in 0 .. MaxElements
        BY <1>1, <1>2, <2>1, InsertingFacts DEF ArraySound
      <4> QED
        BY <4>1, PackedMemoryArrayAssumption
    <3>3. h # MaxHeight
      <4> SUFFICES ASSUME h = MaxHeight PROVE FALSE
        OBVIOUS
      <4>1. MaxElements * 100 <= ThetaH * (SegmentCapacity * n)
        BY <1>2, PackedMemoryArrayAssumption DEF WindowCapacity
      <4> DEFINE y == ThetaH * (SegmentCapacity * n)
      <4>2. y \in Nat /\ y < 100 * (m_cardinality + 1) /\ MaxElements * 100 <= y /\ MaxElements \in Nat
        BY <3>1, <4>1, PackedMemoryArrayAssumption
      <4> HIDE DEF y
      <4> QED
        BY <3>2, <4>2
    <3>4. WindowLength(h + 1) = 2 * WindowLength(h) /\ h + 1 \in 1 .. MaxHeight
      BY <1>7, <3>3, WindowLengths
    <3> QED
      BY <1>2, <1>6, <2>1, <3>4
  <2>2. CASE call.op # "insert"
    <3>1. n > 1
      BY <1>1, <1>4, <2>2, OriginInside
    <3>2. PICK k \in Nat \ {0} : h >= 2 /\ n = 2 * k /\ k = WindowLength(h - 1)
      BY <1>2, <3>1, SegmentsEven
    <3>3. n \div 2 = k
      <4>1. n = 2 * k
        BY <3>2
      <4> HIDE <1>2
      <4> QED
        BY <4>1
    <3>4. h - 1 \in 1 .. MaxHeight
      BY <1>7, <3>2
    <3> QED
      BY <1>6, <2>2, <3>2, <3>3, <3>4
  <2> QED
    BY <2>1, <2>2
<1>9. M \in Nat \ {0}
  <2>1. g \in Nat \ {0}
    BY <1>7
  <2> QED
    BY <1>8, <2>1, WindowLengths
<1>10. /\ ArraySound(segments', separators', m_cardinality, M) /\ Joined(segments', 0, M) = L
       /\ \A s \in 0 .. (M - 1) : segments'[s] # <<>>
  <2> DEFINE D == Dealt(L, sizes, M)
  <2>1. segments' = D /\ separators' = [s \in DOMAIN D |-> D[s][1][1]] /\ D = Dealt(L, sizes, M)
    BY <1>3
  <2> HIDE DEF D
  <2>2. Ordered(L) /\ m_cardinality \in 0 .. MaxElements /\ m_cardinality = Len(L)
    BY <1>2, <1>5 DEF ArraySound
  <2>3. ArraySound(D, separators', m_cardinality, M) /\ Joined(D, 0, M) = L /\ \A s \in 0 .. (M - 1) : D[s] # <<>>
    BY <1>5, <1>9, <2>1, <2>2, ResizeKept
  <2> QED
    BY <2>1, <2>3
<1>11. CallSound(segments', m_cardinality', call', M)
  <2>1. CASE call.op = "insert"
    <3>1. /\ call.element \in Elements /\ m_cardinality < MaxElements
          /\ call = [op |-> "insert", element |-> call.element, resized |-> call.resized]
      BY <1>1, <2>1, InsertingFacts
    <3>2. call' = [call EXCEPT !.resized = TRUE]
      BY <1>4, <2>1
    <3>3. call \in [op : {"insert"}, element : Elements, resized : BOOLEAN]
      BY <1>1, <2>1, InsertingFacts
    <3>4. call' \in Calls(M) /\ call'.op = "insert"
      BY <3>2, <3>3, TriedAgain DEF Calls
    <3>5. M = 2 * n /\ M > 1
      BY <1>6, <2>1
    <3>6. 2 * m_cardinality <= M * SegmentCapacity
      <4>1. \A s \in 0 .. (0 + n - 1) : Len(segments[s]) <= SegmentCapacity
        BY <1>2 DEF ArraySound
      <4>2. Len(Joined(segments, 0, n)) <= n * SegmentCapacity
        BY <1>5, <4>1, JoinedAtMost, PackedMemoryArrayAssumption
      <4>3. m_cardinality <= n * SegmentCapacity /\ m_cardinality \in Nat
        BY <1>2, <4>2, PackedMemoryArrayAssumption DEF ArraySound
      <4>4. M * SegmentCapacity = 2 * (n * SegmentCapacity) /\ n * SegmentCapacity \in Nat
        BY <3>5, PackedMemoryArrayAssumption
      <4> DEFINE y == n * SegmentCapacity
      <4> HIDE DEF y
      <4>5. m_cardinality <= y /\ m_cardinality \in Nat /\ y \in Nat /\ M * SegmentCapacity = 2 * y
        BY <4>3, <4>4 DEF y
      <4>6. 2 * m_cardinality <= 2 * y
        BY <4>5
      <4> QED
        BY <4>5, <4>6
    <3> QED
      BY <1>4, <1>10, <3>1, <3>4, <3>5, <3>6 DEF CallSound
  <2>2. CASE call.op # "insert"
    <3>1. call' = Idle
      BY <1>4, <2>2
    <3> QED
      BY <1>9, <1>10, <3>1, IdleSound
  <2> QED
    BY <2>1, <2>2
<1>12. IndInv' /\ AllElements' = Joined(segments', 0, M)
  BY <1>2, <1>4, <1>8, <1>9, <1>10, <1>11, NextSound
<1> QED
  BY <1>4, <1>5, <1>10, <1>12

-----------------------------------------------------------------------------
(* The steps together *)

(* The constructor: one empty segment. *)
LEMMA InitStep == Init => IndInv
<1> SUFFICES ASSUME Init PROVE IndInv
  OBVIOUS
<1>1. /\ segments = [s \in {0} |-> <<>>] /\ separators = [s \in {0} |-> MaxKey]
      /\ m_cardinality = 0 /\ call = Idle /\ ret = -1
  BY DEF Init
<1>2. 1 \in 1 .. MaxHeight /\ 1 \in Nat \ {0} /\ WindowLength(1) = 1
  BY WindowLengths, PackedMemoryArrayAssumption
<1>3. 0 .. (1 - 1) = {0} /\ segments[0] = <<>> /\ <<>> \in Seq(Elements)
  BY <1>1
<1>4. Joined(segments, 0, 1) = <<>>
  BY <1>3, JoinedOne
<1>5. ArraySound(segments, separators, m_cardinality, 1)
  <2>1. segments \in [0 .. (1 - 1) -> Seq(Elements)] /\ separators \in [0 .. (1 - 1) -> Keys \union {MinKey, MaxKey}]
    BY <1>1, <1>3
  <2>2. \A s \in 0 .. (1 - 1) : segments[s] = <<>> /\ Len(segments[s]) = 0
    BY <1>3
  <2>3. \A s \in 0 .. (1 - 1) : Len(segments[s]) <= SegmentCapacity
    BY <2>2, PackedMemoryArrayAssumption
  <2>4. Ordered(Joined(segments, 0, 1))
    BY <1>4 DEF Ordered
  <2>5. m_cardinality \in 0 .. MaxElements /\ m_cardinality = Len(Joined(segments, 0, 1))
    BY <1>1, <1>4, PackedMemoryArrayAssumption
  <2> QED
    BY <2>1, <2>2, <2>3, <2>4, <2>5 DEF ArraySound
<1>6. CallSound(segments, m_cardinality, call, 1)
  BY <1>1, IdleSound
<1>7. ret \in Values
  BY <1>1 DEF Values
<1>8. Sound(1, 1)
  BY <1>2, <1>5, <1>6, <1>7 DEF Sound
<1> QED
  BY <1>2, <1>8 DEF IndInv

(* A step that leaves the array alone. *)
LEMMA SameArrayStep ==
    ASSUME IndInv, UNCHANGED <<segments, separators, m_cardinality, call>>, ret' \in Values
    PROVE  IndInv' /\ AllElements' = AllElements
<1>1. PICK h \in 1 .. MaxHeight, n \in Nat \ {0} : Sound(h, n)
  BY DEF IndInv
<1>2. /\ ArraySound(segments, separators, m_cardinality, n) /\ CallSound(segments, m_cardinality, call, n)
      /\ n = WindowLength(h)
  BY <1>1 DEF Sound
<1>3. ArraySound(segments', separators', m_cardinality', n) /\ CallSound(segments', m_cardinality', call', n)
  BY <1>2
<1>4. IndInv' /\ AllElements' = Joined(segments', 0, n)
  BY <1>2, <1>3, NextSound
<1>5. AllElements = Joined(segments, 0, n)
  BY <1>1, SegmentsOf
<1> QED
  BY <1>4, <1>5

(* The elements of a sequence, wherever they are. *)
Among(L, e) == \E j \in DOMAIN L : L[j] = e

(* The elements of two sequences together. *)
LEMMA AmongCat ==
    ASSUME NEW s \in Seq(Elements), NEW t \in Seq(Elements), NEW e
    PROVE  Among(Cat(s, t), e) <=> Among(s, e) \/ Among(t, e)
<1> DEFINE x == Len(s)
           y == Len(t)
<1>1. x \in Nat /\ y \in Nat /\ DOMAIN s = 1 .. x /\ DOMAIN t = 1 .. y
  OBVIOUS
<1>2. Cat(s, t) \in Seq(Elements) /\ Len(Cat(s, t)) = x + y
  BY CatType, CatLen
<1>3. DOMAIN Cat(s, t) = 1 .. (x + y)
  BY <1>2
<1>4. \A i \in 1 .. x : Cat(s, t)[i] = s[i]
  BY CatLeft
<1>5. \A i \in 1 .. y : Cat(s, t)[x + i] = t[i]
  BY CatRight
<1> HIDE DEF x, y
<1>6. ASSUME NEW i \in 1 .. x PROVE i \in 1 .. (x + y)
  BY <1>1
<1>7. ASSUME NEW i \in 1 .. y PROVE x + i \in 1 .. (x + y)
  BY <1>1
<1>8. ASSUME NEW i \in 1 .. (x + y) PROVE i \in 1 .. x \/ \E k \in 1 .. y : i = x + k
  <2>1. CASE i > x
    <3>1. i - x \in 1 .. y /\ i = x + (i - x)
      BY <1>1, <2>1
    <3> QED
      BY <3>1
  <2>2. CASE ~ (i > x)
    BY <1>1, <2>2
  <2> QED
    BY <2>1, <2>2
<1>9. Among(s, e) => Among(Cat(s, t), e)
  BY <1>1, <1>3, <1>4, <1>6, Zenon DEF Among
<1>10. Among(t, e) => Among(Cat(s, t), e)
  BY <1>1, <1>3, <1>5, <1>7, Zenon DEF Among
<1>11. ASSUME Among(Cat(s, t), e) PROVE Among(s, e) \/ Among(t, e)
  <2>1. PICK i \in 1 .. (x + y) : Cat(s, t)[i] = e
    BY <1>3, <1>11 DEF Among
  <2>2. CASE i \in 1 .. x
    BY <1>1, <1>4, <2>1, <2>2 DEF Among
  <2>3. CASE \E k \in 1 .. y : i = x + k
    <3>1. PICK k \in 1 .. y : i = x + k
      BY <2>3
    <3>2. t[k] = e /\ k \in DOMAIN t
      BY <1>1, <1>5, <2>1, <3>1, Zenon
    <3> QED
      BY <3>2 DEF Among
  <2> QED
    BY <1>8, <2>1, <2>2, <2>3
<1> QED
  BY <1>9, <1>10, <1>11

(* The elements of the array are those of its segments. *)
LEMMA AmongJoined ==
    ASSUME NEW f, NEW n \in Nat, Arrays(f, 0, n), NEW e
    PROVE  Among(Joined(f, 0, n), e) <=> \E s \in 0 .. (n - 1) : Among(f[s], e)
<1>1. ASSUME NEW s \in 0 .. (n - 1), Among(f[s], e) PROVE Among(Joined(f, 0, n), e)
  <2>1. s \in 0 .. (0 + n - 1)
    OBVIOUS
  <2>2. f[s] \in Seq(Elements) /\ \E A, Z \in Seq(Elements) : Joined(f, 0, n) = Cat(A, Cat(f[s], Z))
    BY <2>1, AroundOne
  <2>3. PICK A \in Seq(Elements), Z \in Seq(Elements) : Joined(f, 0, n) = Cat(A, Cat(f[s], Z))
    BY <2>2
  <2>4. Cat(f[s], Z) \in Seq(Elements) /\ Among(Cat(f[s], Z), e)
    BY <1>1, <2>2, CatType, AmongCat
  <2> QED
    BY <2>3, <2>4, AmongCat
<1> DEFINE Some == \E s \in 0 .. (n - 1) : Among(f[s], e)
           T == {k \in 0 .. n : Joined(f, 0, k) \in Seq(Elements) /\ (Among(Joined(f, 0, k), e) => Some)}
<1>2. 0 \in T
  <2>1. Joined(f, 0, 0) = <<>>
    BY JoinedNone
  <2>2. <<>> \in Seq(Elements) /\ ~ Among(<<>>, e) /\ 0 \in 0 .. n
    BY DEF Among
  <2> QED
    BY <2>1, <2>2, Zenon
<1>3. ASSUME NEW k \in 1 .. n, k - 1 \in T PROVE k \in T
  <2>1. PICK j \in Nat : Plus(k, j, 1) /\ Plus(j, 0, j) /\ j = k - 1 /\ j \in 0 .. (n - 1)
    <3>1. k - 1 \in Nat /\ Plus(k, k - 1, 1) /\ Plus(k - 1, 0, k - 1) /\ k - 1 \in 0 .. (n - 1)
      BY DEF Plus
    <3> QED
      BY <3>1
  <2>2. Arrays(f, 0, k) /\ k \in Nat /\ f[j] \in Seq(Elements)
    BY <2>1 DEF Arrays
  <2>3. Joined(f, 0, k) = Cat(Joined(f, 0, j), f[j])
    BY <2>1, <2>2, JoinedMore
  <2>4. Joined(f, 0, j) \in Seq(Elements) /\ (Among(Joined(f, 0, j), e) => Some)
    BY <1>3, <2>1
  <2>5. Among(f[j], e) => Some
    BY <2>1
  <2> HIDE DEF Some
  <2>6. Cat(Joined(f, 0, j), f[j]) \in Seq(Elements) /\ (Among(Cat(Joined(f, 0, j), f[j]), e) => Some)
    <3> DEFINE J == Joined(f, 0, j)
    <3>1. J \in Seq(Elements) /\ (Among(J, e) => Some)
      BY <2>4
    <3> HIDE DEF J
    <3>2. Cat(J, f[j]) \in Seq(Elements) /\ (Among(Cat(J, f[j]), e) => Some)
      BY <2>2, <2>5, <3>1, CatType, AmongCat
    <3> QED
      BY <3>2 DEF J
  <2>7. k \in 0 .. n
    OBVIOUS
  <2> QED
    BY <2>3, <2>6, <2>7, Zenon
<1> HIDE DEF T
<1>4. n \in T
  <2>1. \A k \in 1 .. n : k - 1 \in T => k \in T
    BY <1>3
  <2>2. \A k \in 0 .. n : k \in T
    BY <1>2, <2>1, UpTo
  <2> QED
    BY <2>2
<1> QED
  BY <1>1, <1>4 DEF T

(* What find returns is the value of an element with the key, or -1 when there is none. *)
LEMMA FindStep ==
    ASSUME IndInv, NEW key \in Keys, find(key) \/ RemoveMissing(key)
    PROVE  /\ IndInv' /\ AllElements' = AllElements
           /\ \/ ret' = -1 /\ \A e : Among(AllElements, e) => e[1] # key
              \/ \E e \in Elements : Among(AllElements, e) /\ e[1] = key /\ ret' = e[2]
<1>1. PICK h \in 1 .. MaxHeight, n \in Nat \ {0} : Sound(h, n)
  BY DEF IndInv
<1> DEFINE t == index_find(key)
           i == FirstWith(t, key)
<1>2. /\ UNCHANGED <<segments, separators, m_cardinality, call>> /\ call = Idle
      /\ \/ ret' = -1 /\ (m_cardinality = 0 \/ i = 0)
         \/ ret' = segments[t][i][2] /\ i # 0
  BY DEF find, RemoveMissing
<1>3. key \in Int
  BY PackedMemoryArrayAssumption DEF Keys
<1>4. /\ t \in 0 .. (n - 1)
      /\ i = 0 => \A s \in 0 .. (n - 1) : \A j \in DOMAIN segments[s] : segments[s][j][1] # key
      /\ i # 0 => i \in DOMAIN segments[t] /\ segments[t][i][1] = key
  BY <1>1, <1>2, <1>3, SearchIs
<1> HIDE DEF t, i
<1>5. /\ AllElements = Joined(segments, 0, n) /\ AllElements \in Seq(Elements) /\ Arrays(segments, 0, n)
      /\ m_cardinality = Len(AllElements)
  BY <1>1, SegmentsOf DEF Sound, ArraySound
<1>6. \A e : Among(AllElements, e) <=> \E s \in 0 .. (n - 1) : Among(segments[s], e)
  BY <1>5, AmongJoined
<1>7. CASE ret' = -1 /\ (m_cardinality = 0 \/ i = 0)
  <2>1. ASSUME NEW e, Among(AllElements, e) PROVE e[1] # key
    <3>1. DOMAIN AllElements # {}
      BY <2>1 DEF Among
    <3>2. m_cardinality # 0
      <4> DEFINE L == AllElements
      <4>1. L \in Seq(Elements) /\ DOMAIN L # {} /\ m_cardinality = Len(L)
        BY <1>5, <3>1
      <4> HIDE DEF L
      <4> QED
        BY <4>1
    <3>3. PICK s \in 0 .. (n - 1) : Among(segments[s], e)
      BY <1>6, <2>1
    <3> QED
      BY <1>4, <1>7, <3>2, <3>3 DEF Among
  <2>2. ret' \in Values
    BY <1>7 DEF Values
  <2>3. IndInv' /\ AllElements' = AllElements
    BY <1>2, <2>2, SameArrayStep
  <2> QED
    BY <1>7, <2>1, <2>3
<1>8. CASE ret' = segments[t][i][2] /\ i # 0
  <2> DEFINE e == segments[t][i]
  <2>1. e[1] = key /\ Among(segments[t], e)
    BY <1>4, <1>8 DEF Among
  <2>2. Among(AllElements, e)
    BY <1>4, <1>6, <2>1
  <2>3. e \in Elements
    BY <1>4, <1>5, <1>8 DEF Arrays
  <2>4. ret' = e[2]
    BY <1>8
  <2> HIDE DEF e
  <2>5. ret' \in Values
    BY <2>3, <2>4 DEF Values
  <2>6. IndInv' /\ AllElements' = AllElements
    BY <1>2, <2>5, SameArrayStep
  <2> QED
    BY <2>1, <2>2, <2>3, <2>4, <2>6
<1> QED
  BY <1>2, <1>7, <1>8

(* Every step keeps the invariant, when no value is the one that stands for "not found". *)
LEMMA NextStep == ASSUME NoMinusOne, IndInv, [Next]_vars PROVE IndInv'
<1>1. ASSUME NEW e \in Elements, insert(e) PROVE IndInv'
  BY <1>1, InsertStep
<1>2. CASE insert_empty
  BY <1>2, InsertEmptyStep
<1>3. CASE storage_insert_unsafe
  BY <1>3, StorageInsertStep
<1>4. ASSUME NEW key \in Keys, RemoveMissing(key) \/ find(key) PROVE IndInv'
  BY <1>4, FindStep
<1>5. ASSUME NEW key \in Keys, remove(key) PROVE IndInv'
  BY <1>5, RemoveStep
<1>6. CASE spread
  BY <1>6, SpreadStep
<1>7. CASE resize
  BY <1>7, ResizeStep
<1>8. CASE UNCHANGED vars
  <2>1. UNCHANGED <<segments, separators, m_cardinality, call>> /\ ret' = ret
    BY <1>8 DEF vars
  <2>2. ret \in Values
    BY DEF IndInv, Sound
  <2> QED
    BY <2>1, <2>2, SameArrayStep
<1> QED
  BY <1>1, <1>2, <1>3, <1>4, <1>5, <1>6, <1>7, <1>8, Zenon DEF Next

(* The packed memory array keeps its sound states: every handler of PackedMemoryArray    *)
(* (insert_empty, insert_common, remove, the spread and the resize of rebalance_global)  *)
(* leaves an array from which the next one can start.                                    *)
THEOREM PackedMemoryArraySound == ASSUME NoMinusOne PROVE SafetySpec => []IndInv
<1>1. Init => IndInv
  BY InitStep
<1>2. IndInv /\ [Next]_vars => IndInv'
  BY NextStep
<1> QED
  BY <1>1, <1>2, PTL DEF SafetySpec

(* In every reachable state the types are right, the elements are in key order from the  *)
(* first segment to the last, the index leads find and remove to every key stored, the   *)
(* cardinality is the number of elements and, between calls, no segment of several is    *)
(* empty: for any segment capacity, thresholds, elements and array, as long as no value  *)
(* is the -1 that PackedMemoryArray::remove takes for "not found".                       *)
THEOREM PackedMemoryArrayWellFormed == ASSUME NoMinusOne PROVE SafetySpec => []WellFormed
<1>1. SafetySpec => []IndInv
  BY PackedMemoryArraySound
<1>2. IndInv => WellFormed
  BY IndInvWellFormed
<1> QED
  BY <1>1, <1>2, PTL

(* Two segments at the density of the root have room for half their slots and one more   *)
(* element.  The code has theta_h = 0.75 and segments of 32 slots or more.               *)
RoomAfterResize == 100 * (SegmentCapacity + 1) <= 2 * ThetaH * SegmentCapacity

(* An insertion that is tried again finds room: the resize doubled the segments, so the  *)
(* array is at most half full, and the root is below its threshold.                      *)
LEMMA IndInvRetry == ASSUME RoomAfterResize, IndInv PROVE RetrySucceeds
<1> SUFFICES ASSUME call.op = "insert", call.resized, Rebalances, ~ Balanced(WindowHeight) PROVE FALSE
  BY DEF RetrySucceeds
<1>1. PICK h \in 1 .. MaxHeight, n \in Nat \ {0} : Sound(h, n)
  BY DEF IndInv
<1>2. ThetaH * (SegmentCapacity * n) < 100 * (m_cardinality + 1)
  BY <1>1, TooDense
<1>3. n > 1 /\ 2 * m_cardinality <= n * SegmentCapacity
  BY <1>1 DEF Sound, CallSound
<1>4. m_cardinality \in Nat /\ SegmentCapacity \in Nat \ {0} /\ ThetaH \in Nat
  BY <1>1, PackedMemoryArrayAssumption DEF Sound, ArraySound
<1> DEFINE C == SegmentCapacity
           W == C * n
           P == ThetaH * W
           Q == ThetaH * C
<1>5. C \in Nat /\ W \in Nat /\ P \in Nat /\ Q \in Nat
  BY <1>4
<1>6. 2 * m_cardinality <= W
  BY <1>3, <1>4
<1>7. 100 * (C + 1) <= 2 * Q
  BY <1>4 DEF RoomAfterResize
<1>8. P = Q * n
  BY <1>4
<1>9. P < 100 * (m_cardinality + 1)
  BY <1>2
<1> HIDE DEF P, Q
<1>10. 100 * (C + 1) * n <= 2 * Q * n
  BY <1>4, <1>5, <1>7
<1>11. 100 * (C + 1) * n = 100 * W + 100 * n
  BY <1>4
<1>12. 2 * Q * n = 2 * P
  BY <1>5, <1>8
<1> HIDE DEF W, C
<1> QED
  BY <1>3, <1>4, <1>5, <1>6, <1>9, <1>10, <1>11, <1>12

(* After the resize of rebalance_global the insertion that insert_common tries again     *)
(* finds a free slot or a window to spread, and never resizes a second time.             *)
THEOREM PackedMemoryArrayRetrySucceeds == ASSUME NoMinusOne, RoomAfterResize PROVE SafetySpec => []RetrySucceeds
<1>1. SafetySpec => []IndInv
  BY PackedMemoryArraySound
<1>2. IndInv => RetrySucceeds
  BY IndInvRetry
<1> QED
  BY <1>1, <1>2, PTL

(* Between calls the segment that the index gives has an element, unless the array has  *)
(* none at all.                                                                         *)
LEMMA IndInvVisits == IndInv => RemoveVisitsNonEmpty
<1> SUFFICES ASSUME IndInv, call = Idle, m_cardinality > 0, NEW key \in Keys
             PROVE  segments[index_find(key)] # <<>>
  BY DEF RemoveVisitsNonEmpty
<1>1. PICK h \in 1 .. MaxHeight, n \in Nat \ {0} : Sound(h, n)
  BY DEF IndInv
<1>2. index_find(key) \in 0 .. (n - 1)
  <2>1. key \in Int
    BY PackedMemoryArrayAssumption DEF Keys
  <2> QED
    BY <1>1, <2>1, SearchIs
<1>3. CASE n > 1
  <2>1. call.op # "remove"
    BY DEF Idle
  <2> QED
    BY <1>1, <1>2, <1>3, <2>1 DEF Sound, CallSound
<1>4. CASE n = 1
  <2>1. index_find(key) = 0
    BY <1>2, <1>4
  <2>2. segments[0] \in Seq(Elements) /\ m_cardinality = Len(Joined(segments, 0, 1))
    BY <1>1, <1>4 DEF Sound, ArraySound
  <2>3. m_cardinality = Len(segments[0])
    BY <2>2, JoinedOne
  <2>4. segments[0] # <<>>
    BY <2>3
  <2> QED
    BY <2>1, <2>4
<1> QED
  BY <1>3, <1>4

(* ::remove never looks for a key in a segment with no element: its assertion "Empty     *)
(* segment!" holds as long as no value is -1.                                            *)
THEOREM PackedMemoryArrayRemoveVisitsNonEmpty == ASSUME NoMinusOne PROVE SafetySpec => []RemoveVisitsNonEmpty
<1>1. SafetySpec => []IndInv
  BY PackedMemoryArraySound
<1>2. IndInv => RemoveVisitsNonEmpty
  BY IndInvVisits
<1> QED
  BY <1>1, <1>2, PTL

-----------------------------------------------------------------------------
(* The ordered collection the array implements *)

(* Where an element is in a sequence, and how many times. *)
Where(L, e) == {i \in DOMAIN L : L[i] = e}
Count(L, e) == Cardinality(Where(L, e))

(* The positions are finitely many. *)
LEMMA WhereFinite ==
    ASSUME NEW L \in Seq(Elements), NEW e
    PROVE  IsFiniteSet(Where(L, e)) /\ Count(L, e) \in Nat /\ (Among(L, e) <=> Count(L, e) # 0)
<1>1. Len(L) \in Nat /\ DOMAIN L = 1 .. Len(L)
  OBVIOUS
<1>2. IsFiniteSet(1 .. Len(L))
  BY <1>1, FS_Interval
<1>3. Where(L, e) \in SUBSET (1 .. Len(L))
  BY <1>1 DEF Where
<1>4. IsFiniteSet(Where(L, e))
  BY <1>2, <1>3, FS_Subset
<1>5. Count(L, e) \in Nat /\ (Count(L, e) = 0 <=> Where(L, e) = {})
  BY <1>4, FS_CardinalityType, FS_EmptySet DEF Count
<1>6. Among(L, e) <=> Where(L, e) # {}
  BY DEF Among, Where
<1> QED
  BY <1>4, <1>5, <1>6

Shift(S, x) == {x + i : i \in S}

(* As many positions after a shift. *)
LEMMA Shifted ==
    ASSUME NEW S \in SUBSET Nat, IsFiniteSet(S), NEW x \in Nat
    PROVE  IsFiniteSet(Shift(S, x)) /\ Cardinality(Shift(S, x)) = Cardinality(S)
<1> DEFINE f == [i \in S |-> x + i]
           T == Shift(S, x)
<1> USE DEF Shift
<1>1. f \in [S -> T] /\ \A i \in S : f[i] = x + i
  OBVIOUS
<1>2. \A i, j \in S : f[i] = f[j] => i = j
  BY <1>1
<1>3. \A t \in T : \E i \in S : f[i] = t
  BY <1>1
<1> HIDE DEF f
<1>4. f \in Bijection(S, T)
  BY <1>1, <1>2, <1>3 DEF Bijection, Injection, IsInjective, Surjection
<1> QED
  BY <1>4, FS_Bijection DEF ExistsBijection

(* Two sequences have what each one has. *)
LEMMA CountCat ==
    ASSUME NEW s \in Seq(Elements), NEW t \in Seq(Elements), NEW e
    PROVE  Count(Cat(s, t), e) = Count(s, e) + Count(t, e)
<1> DEFINE x == Len(s)
           y == Len(t)
           T == Shift(Where(t, e), x)
<1> USE DEF Shift
<1>1. x \in Nat /\ y \in Nat /\ DOMAIN s = 1 .. x /\ DOMAIN t = 1 .. y
  OBVIOUS
<1>2. Cat(s, t) \in Seq(Elements) /\ Len(Cat(s, t)) = x + y
  BY CatType, CatLen
<1>3. DOMAIN Cat(s, t) = 1 .. (x + y)
  BY <1>2
<1>4. \A i \in 1 .. x : Cat(s, t)[i] = s[i]
  BY CatLeft
<1>5. \A i \in 1 .. y : Cat(s, t)[x + i] = t[i]
  BY CatRight
<1>6. Where(s, e) \in SUBSET (1 .. x) /\ Where(t, e) \in SUBSET (1 .. y) /\ Where(t, e) \in SUBSET Nat
  BY <1>1 DEF Where
<1> HIDE DEF x, y
<1>7. \A k \in T : k \in (x + 1) .. (x + y)
  BY <1>1, <1>6
<1>8. Where(s, e) \cap T = {}
  BY <1>1, <1>6, <1>7
<1>9. Where(Cat(s, t), e) = Where(s, e) \union T
  <2>1. ASSUME NEW k \in Where(Cat(s, t), e) PROVE k \in Where(s, e) \union T
    <3>1. k \in 1 .. (x + y) /\ Cat(s, t)[k] = e
      BY <1>3 DEF Where
    <3>2. CASE k <= x
      <4>1. k \in 1 .. x
        BY <1>1, <3>1, <3>2
      <4> QED
        BY <1>1, <1>4, <3>1, <4>1 DEF Where
    <3>3. CASE ~ (k <= x)
      <4>1. PICK i \in 1 .. y : k = x + i
        <5>1. k - x \in 1 .. y /\ k = x + (k - x)
          BY <1>1, <3>1, <3>3
        <5> QED
          BY <5>1
      <4>2. t[i] = e
        BY <1>5, <3>1, <4>1, Zenon
      <4>3. i \in Where(t, e)
        BY <1>1, <4>2 DEF Where
      <4> QED
        BY <4>1, <4>3
    <3> QED
      BY <3>2, <3>3
  <2>2. ASSUME NEW k \in Where(s, e) PROVE k \in Where(Cat(s, t), e)
    <3>1. k \in 1 .. x /\ s[k] = e /\ k \in 1 .. (x + y)
      BY <1>1, <1>6 DEF Where
    <3> QED
      BY <1>3, <1>4, <3>1 DEF Where
  <2>3. ASSUME NEW i \in Where(t, e) PROVE x + i \in Where(Cat(s, t), e)
    <3>1. i \in 1 .. y /\ t[i] = e /\ x + i \in 1 .. (x + y)
      BY <1>1, <1>6 DEF Where
    <3>2. Cat(s, t)[x + i] = e
      BY <1>5, <3>1, Zenon
    <3> QED
      BY <1>3, <3>1, <3>2 DEF Where
  <2> QED
    BY <2>1, <2>2, <2>3
<1>10. IsFiniteSet(Where(s, e)) /\ IsFiniteSet(Where(t, e))
  BY WhereFinite
<1>11. IsFiniteSet(T) /\ Cardinality(T) = Cardinality(Where(t, e))
  <2> HIDE DEF Shift
  <2> QED
    BY <1>1, <1>6, <1>10, Shifted, Zenon
<1> HIDE DEF T
<1>12. Cardinality(Where(s, e) \union T) = Cardinality(Where(s, e)) + Cardinality(T)
  <2>1. Cardinality(Where(s, e) \union T)
          = Cardinality(Where(s, e)) + Cardinality(T) - Cardinality(Where(s, e) \cap T)
    BY <1>10, <1>11, FS_Union
  <2>2. Cardinality(Where(s, e) \cap T) = 0
    BY <1>8, FS_EmptySet
  <2>3. Cardinality(Where(s, e)) \in Nat /\ Cardinality(T) \in Nat
    BY <1>10, <1>11, FS_CardinalityType
  <2> QED
    BY <2>1, <2>2, <2>3
<1> QED
  BY <1>9, <1>11, <1>12, Zenon DEF Count

(* One more of the element inserted, and as many of the others. *)
LEMMA CountInserted ==
    ASSUME NEW t, NEW s, NEW e \in Elements, Inserted(t, s, e)
    PROVE  /\ s \in Seq(Elements) /\ t \in Seq(Elements)
           /\ Count(t, e) = Count(s, e) + 1
           /\ \A d : d # e => Count(t, d) = Count(s, d)
<1>1. PICK u \in Seq(Elements), v \in Seq(Elements) : s = Cat(u, v) /\ t = Cat(u, Cat(<<e>>, v))
  BY DEF Inserted
<1>2. <<e>> \in Seq(Elements)
  OBVIOUS
<1>3. s \in Seq(Elements) /\ Cat(<<e>>, v) \in Seq(Elements) /\ t \in Seq(Elements)
  BY <1>1, <1>2, CatType
<1>4. ASSUME NEW d PROVE /\ Count(t, d) = Count(u, d) + (Count(<<e>>, d) + Count(v, d))
                         /\ Count(s, d) = Count(u, d) + Count(v, d)
                         /\ Count(u, d) \in Nat /\ Count(v, d) \in Nat
  <2>1. Count(Cat(<<e>>, v), d) = Count(<<e>>, d) + Count(v, d)
    BY <1>2, CountCat
  <2>2. Count(t, d) = Count(u, d) + Count(Cat(<<e>>, v), d)
    BY <1>1, <1>3, CountCat
  <2>3. Count(s, d) = Count(u, d) + Count(v, d)
    BY <1>1, CountCat
  <2> QED
    BY <2>1, <2>2, <2>3, WhereFinite
<1>5. Count(<<e>>, e) = 1
  <2>1. Where(<<e>>, e) = {1}
    BY DEF Where
  <2> QED
    BY <2>1, FS_Singleton DEF Count
<1>6. ASSUME NEW d, d # e PROVE Count(<<e>>, d) = 0
  <2>1. Where(<<e>>, d) = {}
    BY <1>6 DEF Where
  <2> QED
    BY <2>1, FS_EmptySet DEF Count
<1>7. Count(t, e) = Count(s, e) + 1
  BY <1>4, <1>5
<1>8. ASSUME NEW d, d # e PROVE Count(t, d) = Count(s, d)
  <2>1. Count(<<e>>, d) = 0
    BY <1>6, <1>8
  <2> QED
    BY <1>4, <2>1
<1> QED
  BY <1>3, <1>7, <1>8

(* The bag of a sequence counts its elements. *)
LEMMA BagOfIs ==
    ASSUME NEW L \in Seq(Elements)
    PROVE  /\ BagOf(L) = [e \in DOMAIN BagOf(L) |-> Count(L, e)]
           /\ \A e : e \in DOMAIN BagOf(L) <=> Count(L, e) # 0
           /\ \A e : Count(L, e) \in Nat
<1>1. BagOf(L) = [e \in Range(L) |-> Count(L, e)]
  BY DEF BagOf, Count, Where
<1>2. \A e : e \in Range(L) <=> Among(L, e)
  BY DEF Range, Among
<1>3. \A e : (Among(L, e) <=> Count(L, e) # 0) /\ Count(L, e) \in Nat
  BY WhereFinite
<1>4. DOMAIN BagOf(L) = Range(L)
  BY <1>1
<1> QED
  BY <1>1, <1>2, <1>3, <1>4

(* A bag with one copy more of an element, and with one less. *)
OneMore(B, e) ==
    [d \in DOMAIN B \union {e} |-> (IF d \in DOMAIN B THEN B[d] ELSE 0) + (IF d \in {e} THEN 1 ELSE 0)]
OneLess(B, e) ==
    [d \in {x \in DOMAIN B : (IF x \in {e} THEN B[x] - 1 ELSE B[x]) > 0} |->
        IF d \in {e} THEN B[d] - 1 ELSE B[d]]

(* Two functions that agree everywhere. *)
LEMMA SameFunction ==
    ASSUME NEW f, NEW g, f = [d \in DOMAIN f |-> f[d]], g = [d \in DOMAIN g |-> g[d]],
           \A d : d \in DOMAIN f <=> d \in DOMAIN g, \A d \in DOMAIN f : f[d] = g[d]
    PROVE  f = g
<1>1. DOMAIN f = DOMAIN g
  OBVIOUS
<1> QED
  BY <1>1, Zenon

(* An insertion adds one copy of its element to the bag, whichever segment takes it. *)
LEMMA BagInserted ==
    ASSUME NEW t, NEW s, NEW e \in Elements, Inserted(t, s, e)
    PROVE  BagOf(t) = OneMore(BagOf(s), e) /\ BagOf(s) = OneLess(BagOf(t), e)
<1>1. /\ s \in Seq(Elements) /\ t \in Seq(Elements) /\ Count(t, e) = Count(s, e) + 1
      /\ \A d : d # e => Count(t, d) = Count(s, d)
  BY CountInserted
<1> DEFINE A == BagOf(s)
           B == BagOf(t)
<1>2. /\ A = [d \in DOMAIN A |-> Count(s, d)]
      /\ \A d : d \in DOMAIN A <=> Count(s, d) # 0
      /\ \A d : Count(s, d) \in Nat
  BY <1>1, BagOfIs
<1>3. /\ B = [d \in DOMAIN B |-> Count(t, d)]
      /\ \A d : d \in DOMAIN B <=> Count(t, d) # 0
      /\ \A d : Count(t, d) \in Nat
  BY <1>1, BagOfIs
<1> HIDE DEF A, B
<1>4. B = OneMore(A, e)
  <2> DEFINE M == OneMore(A, e)
  <2>1. /\ DOMAIN M = DOMAIN A \union {e} /\ M = [d \in DOMAIN M |-> M[d]]
        /\ \A d \in DOMAIN M : M[d] = (IF d \in DOMAIN A THEN A[d] ELSE 0) + (IF d \in {e} THEN 1 ELSE 0)
    BY DEF OneMore
  <2> HIDE DEF M
  <2>2. ASSUME NEW d PROVE d \in DOMAIN B <=> d \in DOMAIN M
    BY <1>1, <1>2, <1>3, <2>1
  <2>3. ASSUME NEW d \in DOMAIN B PROVE B[d] = M[d]
    <3>1. d \in DOMAIN M /\ B[d] = Count(t, d)
      BY <1>3, <2>2
    <3>2. (IF d \in DOMAIN A THEN A[d] ELSE 0) = Count(s, d)
      BY <1>2
    <3>3. M[d] = Count(s, d) + (IF d \in {e} THEN 1 ELSE 0)
      BY <2>1, <3>1, <3>2
    <3>4. CASE d = e
      BY <1>1, <3>1, <3>3, <3>4
    <3>5. CASE d # e
      <4>1. M[d] = Count(s, d) + 0 /\ Count(t, d) = Count(s, d)
        BY <1>1, <3>3, <3>5
      <4> QED
        BY <1>2, <3>1, <4>1
    <3> QED
      BY <3>4, <3>5
  <2>4. B = [d \in DOMAIN B |-> B[d]]
    BY <1>3
  <2>5. B = M
    BY <2>1, <2>2, <2>3, <2>4, SameFunction
  <2> QED
    BY <2>5 DEF M
<1>5. A = OneLess(B, e)
  <2> DEFINE M == OneLess(B, e)
  <2>1. /\ DOMAIN M = {x \in DOMAIN B : (IF x \in {e} THEN B[x] - 1 ELSE B[x]) > 0}
        /\ M = [d \in DOMAIN M |-> M[d]]
        /\ \A d \in DOMAIN M : M[d] = IF d \in {e} THEN B[d] - 1 ELSE B[d]
    BY DEF OneLess
  <2> HIDE DEF M
  <2>2. ASSUME NEW d PROVE (d \in DOMAIN A <=> d \in DOMAIN M) /\ (d \in DOMAIN M => M[d] = Count(s, d))
    <3>1. CASE d = e
      <4>1. e \in DOMAIN B /\ B[e] = Count(s, e) + 1
        BY <1>1, <1>2, <1>3
      <4>2. B[e] - 1 = Count(s, e) /\ Count(s, e) \in Nat
        BY <1>2, <4>1
      <4>3. e \in DOMAIN M <=> Count(s, e) > 0
        BY <2>1, <4>1, <4>2
      <4>4. e \in DOMAIN M => M[e] = Count(s, e)
        BY <2>1, <4>2
      <4> QED
        BY <1>2, <3>1, <4>2, <4>3, <4>4
    <3>2. CASE d # e
      <4>1. Count(t, d) = Count(s, d) /\ Count(s, d) \in Nat
        BY <1>1, <1>2, <3>2
      <4>2. d \in DOMAIN B => B[d] = Count(s, d)
        BY <1>3, <4>1
      <4>3. d \in DOMAIN M <=> d \in DOMAIN B /\ Count(s, d) > 0
        BY <2>1, <3>2, <4>2
      <4>4. d \in DOMAIN M => M[d] = Count(s, d)
        BY <2>1, <3>2, <4>2, <4>3
      <4> QED
        BY <1>2, <1>3, <4>1, <4>3, <4>4
    <3> QED
      BY <3>1, <3>2
  <2>3. \A d \in DOMAIN A : A[d] = M[d]
    BY <1>2, <2>2
  <2>4. A = [d \in DOMAIN A |-> A[d]]
    BY <1>2
  <2>5. A = M
    BY <2>1, <2>2, <2>3, <2>4, SameFunction
  <2> QED
    BY <2>5 DEF M
<1> QED
  BY <1>4, <1>5 DEF A, B

-----------------------------------------------------------------------------
(* Each step of the array is a step of the collection, or none *)

(* The array starts with no element. *)
LEMMA MapInit == Init => Map!Init
<1> SUFFICES ASSUME Init PROVE Map!Init
  OBVIOUS
<1>1. PICK h \in 1 .. MaxHeight, n \in Nat \ {0} : Sound(h, n)
  BY InitStep DEF IndInv
<1>2. AllElements \in Seq(Elements) /\ Len(AllElements) = 0
  BY <1>1, SegmentsOf DEF Init, Sound, ArraySound
<1>3. AllElements = <<>>
  <2> DEFINE L == AllElements
  <2>1. L \in Seq(Elements) /\ Len(L) = 0
    BY <1>2
  <2> HIDE DEF L
  <2>2. L = <<>>
    BY <2>1
  <2> QED
    BY <2>2 DEF L
<1>4. BagOf(<<>>) = [e \in {} |-> 1]
  <2>1. DOMAIN BagOf(<<>>) = {} /\ BagOf(<<>>) = [e \in Range(<<>>) |-> Count(<<>>, e)] /\ Range(<<>>) = {}
    BY DEF BagOf, Count, Where, Range
  <2> QED
    BY <2>1
<1>5. BagOf(AllElements) = [e \in {} |-> 1]
  BY <1>3, <1>4
<1>6. ret = -1
  BY DEF Init
<1> QED
  BY <1>5, <1>6 DEF Map!Init, Map!EmptyBag, Map!SetToBag

(* An insertion that is complete. *)
LEMMA MapInsert ==
    ASSUME NEW e \in Elements, Inserted(AllElements', AllElements, e), ret' = ret
    PROVE  Map!Next
<1>1. BagOf(AllElements') = OneMore(BagOf(AllElements), e)
  BY BagInserted
<1>2. Map!Insert(e)
  <2>1. DOMAIN [d \in {e} |-> 1] = {e}
    OBVIOUS
  <2>2. BagOf(AllElements') =
          [d \in (DOMAIN BagOf(AllElements)) \union (DOMAIN [c \in {e} |-> 1]) |->
              (IF d \in DOMAIN BagOf(AllElements) THEN BagOf(AllElements)[d] ELSE 0)
              + (IF d \in DOMAIN [c \in {e} |-> 1] THEN [c \in {e} |-> 1][d] ELSE 0)]
    <3> DEFINE A == BagOf(AllElements)
    <3>1. BagOf(AllElements') = OneMore(A, e)
      BY <1>1
    <3> HIDE DEF A
    <3> QED
      BY <3>1 DEF OneMore, A
  <2> QED
    BY <2>2 DEF Map!Insert, Map!(+), Map!SetToBag
<1> QED
  BY <1>2 DEF Map!Next

(* A removal. *)
LEMMA MapRemove ==
    ASSUME NEW key \in Keys, NEW e \in Elements, e[1] = key, ret' = e[2],
           Inserted(AllElements, AllElements', e)
    PROVE  Map!Next
<1>1. BagOf(AllElements') = OneLess(BagOf(AllElements), e)
  BY BagInserted
<1>2. e \in DOMAIN BagOf(AllElements)
  <2>1. AllElements \in Seq(Elements) /\ Count(AllElements, e) = Count(AllElements', e) + 1 /\ AllElements' \in Seq(Elements)
    BY CountInserted
  <2>2. Count(AllElements', e) \in Nat
    BY <2>1, WhereFinite
  <2>3. Count(AllElements, e) # 0
    BY <2>1, <2>2
  <2> QED
    BY <2>1, <2>3, BagOfIs
<1>3. e \in Map!With(key)
  BY <1>2 DEF Map!With, Map!BagToSet
<1>4. Map!Remove(key)
  <2>1. BagOf(AllElements') = Map!(-)(BagOf(AllElements), Map!SetToBag({e}))
    <3> DEFINE A == BagOf(AllElements)
    <3>1. BagOf(AllElements') = OneLess(A, e)
      BY <1>1
    <3> HIDE DEF A
    <3>2. OneLess(A, e) = Map!(-)(A, Map!SetToBag({e}))
      BY DEF OneLess, Map!(-), Map!SetToBag
    <3> QED
      BY <3>1, <3>2 DEF A
  <2> QED
    BY <1>3, <2>1 DEF Map!Remove
<1>5. key \in Map!Keys
  BY DEF Map!Keys, Keys
<1> QED
  BY <1>4, <1>5 DEF Map!Next

(* A search: the elements stay, and the value returned is one of the key, or -1. *)
LEMMA MapFind ==
    ASSUME NEW key \in Keys, AllElements \in Seq(Elements), AllElements' = AllElements,
           \/ ret' = -1 /\ \A e : Among(AllElements, e) => e[1] # key
           \/ \E e \in Elements : Among(AllElements, e) /\ e[1] = key /\ ret' = e[2]
    PROVE  Map!Next
<1>1. BagOf(AllElements') = BagOf(AllElements)
  OBVIOUS
<1>2. \A e : e \in DOMAIN BagOf(AllElements) <=> Among(AllElements, e)
  BY BagOfIs, WhereFinite
<1>3. Map!With(key) = {e \in DOMAIN BagOf(AllElements) : e[1] = key}
  BY DEF Map!With, Map!BagToSet
<1>4. key \in Map!Keys
  BY DEF Map!Keys, Keys
<1>5. CASE ret' = -1 /\ \A e : Among(AllElements, e) => e[1] # key
  <2>1. Map!NotFound(key)
    BY <1>1, <1>2, <1>3, <1>5 DEF Map!NotFound
  <2> QED
    BY <1>4, <2>1 DEF Map!Next
<1>6. CASE \E e \in Elements : Among(AllElements, e) /\ e[1] = key /\ ret' = e[2]
  <2>1. PICK e \in Elements : Among(AllElements, e) /\ e[1] = key /\ ret' = e[2]
    BY <1>6
  <2>2. e \in Map!With(key)
    BY <1>2, <1>3, <2>1
  <2>3. Map!Find(key)
    BY <1>1, <2>1, <2>2 DEF Map!Find
  <2> QED
    BY <1>4, <2>3 DEF Map!Next
<1> QED
  BY <1>5, <1>6

(* Every step: the one that completes an insertion is the insertion, a removal and a      *)
(* search are what they are, and the call, the rebalance of a removal and the resize are  *)
(* not seen.                                                                              *)
LEMMA MapStep == ASSUME NoMinusOne, IndInv, [Next]_vars PROVE [Map!Next]_(Map!vars)
<1> DEFINE Same == AllElements' = AllElements /\ ret' = ret
<1>1. Same => UNCHANGED Map!vars
  BY DEF Map!vars
<1>2. ASSUME NEW e \in Elements, insert(e) PROVE Same
  BY <1>2, InsertStep DEF insert
<1>3. CASE insert_empty
  <2>1. call.element \in Elements /\ Inserted(AllElements', AllElements, call.element)
    BY <1>3, InsertEmptyStep
  <2>2. ret' = ret
    BY <1>3 DEF insert_empty
  <2> QED
    BY <2>1, <2>2, MapInsert
<1>4. CASE storage_insert_unsafe
  <2>1. call.element \in Elements /\ Inserted(AllElements', AllElements, call.element)
    BY <1>4, StorageInsertStep
  <2>2. ret' = ret
    BY <1>4 DEF storage_insert_unsafe
  <2> QED
    BY <2>1, <2>2, MapInsert
<1>5. ASSUME NEW key \in Keys, RemoveMissing(key) \/ find(key) PROVE Map!Next
  <2>1. /\ AllElements' = AllElements
        /\ \/ ret' = -1 /\ \A e : Among(AllElements, e) => e[1] # key
           \/ \E e \in Elements : Among(AllElements, e) /\ e[1] = key /\ ret' = e[2]
    BY <1>5, FindStep
  <2>2. AllElements \in Seq(Elements)
    BY SegmentsOf DEF IndInv
  <2> QED
    BY <2>1, <2>2, MapFind
<1>6. ASSUME NEW key \in Keys, remove(key) PROVE Map!Next
  <2>1. /\ Taken(key) \in Elements /\ Taken(key)[1] = key /\ ret' = Taken(key)[2]
        /\ Inserted(AllElements, AllElements', Taken(key))
    BY <1>6, RemoveStep
  <2> QED
    BY <2>1, MapRemove
<1>7. CASE spread
  <2>1. /\ ret' = ret
        /\ call.op = "insert" => call.element \in Elements /\ Inserted(AllElements', AllElements, call.element)
        /\ call.op # "insert" => AllElements' = AllElements
    BY <1>7, SpreadStep
  <2>2. CASE call.op = "insert"
    BY <2>1, <2>2, MapInsert
  <2>3. CASE call.op # "insert"
    BY <1>1, <2>1, <2>3
  <2> QED
    BY <2>2, <2>3
<1>8. CASE resize
  BY <1>1, <1>8, ResizeStep
<1>9. CASE UNCHANGED vars
  <2>1. UNCHANGED <<segments, separators, m_cardinality, call>> /\ ret' = ret
    BY <1>9 DEF vars
  <2>2. ret \in Values
    BY DEF IndInv, Sound
  <2>3. AllElements' = AllElements
    BY <2>1, <2>2, SameArrayStep
  <2> QED
    BY <1>1, <2>1, <2>3
<1> QED
  <2> HIDE DEF Same
  <2> QED
    BY <1>1, <1>2, <1>3, <1>4, <1>5, <1>6, <1>7, <1>8, <1>9, Zenon DEF Next

(* The packed memory array is the ordered collection of pma/interface.hpp: seen through    *)
(* insert, remove and find, the segments, separators and rebalances are a bag of elements, *)
(* each insertion adds one, each removal takes one with the key, and find returns the      *)
(* value of one that is stored.                                                            *)
THEOREM PackedMemoryArrayImplementsMap == ASSUME NoMinusOne PROVE SafetySpec => ImplementsMap
<1>1. SafetySpec => []IndInv
  BY PackedMemoryArraySound
<1>2. Init => Map!Init
  BY MapInit
<1>3. IndInv /\ [Next]_vars => [Map!Next]_(Map!vars)
  BY MapStep
<1> QED
  BY <1>1, <1>2, <1>3, PTL DEF SafetySpec, ImplementsMap, Map!Spec

=============================================================================
